---------------------------- MODULE Spec2Model ----------------------------
(***************************************************************************)
(* Model of the authentication / authorization layer of the club backend:  *)
(* token issuance and verification (auth.rs), the AuthUser and AdminUser   *)
(* request guards (auth.rs), the error-to-response mapping (error.rs), the *)
(* route table (lib.rs) and the signup, login, profile, avatar, password   *)
(* and Google OAuth callback handlers (handlers.rs).                       *)
(*                                                                         *)
(* A client sends one request at a time: a handler runs as one action and  *)
(* leaves its response in `resp`; the client then receives it. Concurrent  *)
(* OAuth callbacks run one database statement per action, in `calls`.      *)
(***************************************************************************)
EXTENDS Integers, Sequences, FiniteSets, TLC

VARIABLES
    users,      \* table users: id -> row
    stats,      \* table user_stats: set of user_id
    nextId,     \* number of ids drawn from Uuid::new_v4 so far, plus one
    now,        \* wall clock, unix seconds
    held,       \* what the client stores of the last token response (Option):
                \* the token, and the id and the role of the user object
                \* that came with it
    resp,       \* the response in flight, with the request that caused it
    calls       \* OAuth callbacks running statement by statement on the pool:
                \* process -> its position and locals

vars == <<users, stats, nextId, now, held, resp, calls>>

----------------------------------------------------------------------------
(* Bounds and input domains *)

MaxUsers == 2

UserIds == 1..MaxUsers

\* the requests the server handles at the same time
Procs == {"p1", "p2"}

Emails == {"a@uj", "b@uj"}

Passwords == {"pw1"}

\* what a password change may set
NewPasswords == {"pw2"}

\* what a login may present: a password somebody chose, or a wrong one
LoginPasswords == Passwords \cup NewPasswords \cup {"wrong"}

FullNames == {"Ann"}

GoogleSubs == {"g1", "g2"}

GoogleNames == {"G-Ann"}

GooglePictures == {"pic"}

\* values of the state query parameter
CsrfStates == {"s1", "s2"}

\* the URL upload_user_avatar stores for a saved file
UploadedImage == "/uploads/avatars/file"

\* what complete_profile may be sent: empty strings pass, nothing is validated
ProfileCompletions ==
    {[university |-> "", major |-> ""], [university |-> "UJ", major |-> "CS"]}

\* Option<T>: None is the empty tuple, Some(x) a one-element tuple
None == <<>>

Some(x) == <<x>>

IsSome(o) == o /= None

Unwrap(o) == o[1]

UnwrapOr(o, d) == IF IsSome(o) THEN o[1] ELSE d

OptionOf(S) == {None} \cup {Some(x) : x \in S}

----------------------------------------------------------------------------
(* Program constants *)

\* chrono::Duration::hours(24)
TokenLifetimeHours == 24

TokenLifetime == TokenLifetimeHours * 3600

\* Validation::default(): leeway of 60 seconds on exp
Leeway == 60

\* the process-wide secret read from JWT_SECRET, and a key an outsider signs with
SecretKey == "JWT_SECRET"

OtherKey == "other-secret"

\* the instants the clock visits: issue time, and the neighbourhood of the
\* expiry of a token issued at 0
Instants ==
    {0, TokenLifetime - 1, TokenLifetime + 1,
     TokenLifetime + Leeway, TokenLifetime + Leeway + 1}

----------------------------------------------------------------------------
(* Uuid <-> String *)

UuidFormats == {"hyphenated", "simple"}

\* Uuid::to_string: the hyphenated lower-case form
UuidToString(u) == [fmt |-> "hyphenated", val |-> u]

\* mutant: a parser that takes only the un-hyphenated form
UuidParseStrSimpleOnly(s) ==
    IF s.fmt = "simple" THEN Some(s.val) ELSE None

\* Uuid::parse_str: accepts the uuid text forms, rejects anything else
UuidParseStr(s) ==
    IF s.fmt \in UuidFormats THEN Some(s.val) ELSE None

----------------------------------------------------------------------------
(* Token codec *)

\* Claims::new(user_id) at time t
ClaimsNew(user_id, t) ==
    [sub |-> UuidToString(user_id), exp |-> t + TokenLifetime]

\* jsonwebtoken::encode(&Header::default(), claims, key)
Encode(claims, key) ==
    [wf |-> TRUE, alg |-> "HS256", key |-> key, hasExp |-> TRUE,
     sub |-> claims.sub, exp |-> claims.exp]

\* create_token(user_id) at time t
CreateToken(user_id, t) == Encode(ClaimsNew(user_id, t), SecretKey)

\* a string that is not three base64url segments
MalformedToken ==
    [wf |-> FALSE, alg |-> "", key |-> "", hasExp |-> FALSE,
     sub |-> [fmt |-> "garbage", val |-> 0], exp |-> 0]

\* mutant: validation of exp with no leeway
ExpExpiredNoLeeway(exp, t) == exp < t

\* jsonwebtoken validation of exp: rejected when exp < now - leeway
ExpExpired(exp, t) == exp < t - Leeway

\* mutant: decoding with the signature check switched off
DecodeNoSignature(token, key, t) ==
    IF ~token.wf THEN [ok |-> FALSE, kind |-> "InvalidToken"]
    ELSE IF token.alg /= "HS256" THEN [ok |-> FALSE, kind |-> "InvalidAlgorithm"]
    ELSE IF ~token.hasExp THEN [ok |-> FALSE, kind |-> "MissingRequiredClaim"]
    ELSE IF ExpExpired(token.exp, t) THEN [ok |-> FALSE, kind |-> "ExpiredSignature"]
    ELSE [ok |-> TRUE, kind |-> "", sub |-> token.sub, exp |-> token.exp]

\* jsonwebtoken::decode::<Claims>(token, key, &Validation::default()) at time t
Decode(token, key, t) ==
    IF ~token.wf THEN [ok |-> FALSE, kind |-> "InvalidToken"]
    ELSE IF token.alg /= "HS256" THEN [ok |-> FALSE, kind |-> "InvalidAlgorithm"]
    ELSE IF token.key /= key THEN [ok |-> FALSE, kind |-> "InvalidSignature"]
    ELSE IF ~token.hasExp THEN [ok |-> FALSE, kind |-> "MissingRequiredClaim"]
    ELSE IF ExpExpired(token.exp, t) THEN [ok |-> FALSE, kind |-> "ExpiredSignature"]
    ELSE [ok |-> TRUE, kind |-> "", sub |-> token.sub, exp |-> token.exp]

----------------------------------------------------------------------------
(* Errors *)

ErrorKinds ==
    {"AuthError", "DatabaseError", "DatabaseErrorUniqueEmail", "ValidationError",
     "BadRequest", "UserExists", "NotFound", "InternalError"}

\* AppError::into_response: the status code
StatusOf(err) ==
    CASE err = "AuthError" -> 401
      [] err = "NotFound" -> 404
      [] err = "DatabaseErrorUniqueEmail" -> 409
      [] err = "DatabaseError" -> 500
      [] err = "ValidationError" -> 400
      [] err = "BadRequest" -> 400
      [] err = "UserExists" -> 409
      [] err = "QueryRejection" -> 400
      [] err = "InternalError" -> 500

\* AppError::into_response: the message of the JSON body
MessageOf(err, msg) ==
    CASE err = "AuthError" -> "Authentication failed"
      [] err = "NotFound" -> "Resource not found"
      [] err = "DatabaseErrorUniqueEmail" -> "User already exists"
      [] err = "DatabaseError" -> "Internal server error"
      [] err = "ValidationError" -> msg
      [] err = "BadRequest" -> msg
      [] err = "UserExists" -> "User already exists"
      [] err = "QueryRejection" -> msg
      [] err = "InternalError" -> "Internal server error"

----------------------------------------------------------------------------
(* Request headers *)

NoHeader == [present |-> FALSE, ascii |-> FALSE, prefix |-> "", rest |-> MalformedToken]

\* an Authorization value that HeaderValue::to_str refuses
OpaqueHeader == [present |-> TRUE, ascii |-> FALSE, prefix |-> "", rest |-> MalformedToken]

TextHeader(prefix, token) ==
    [present |-> TRUE, ascii |-> TRUE, prefix |-> prefix, rest |-> token]

HeaderPrefixes == {"Bearer ", "Basic "}

\* str::strip_prefix("Bearer ")
StripBearer(h) == IF h.prefix = "Bearer " THEN Some(h.rest) ELSE None

----------------------------------------------------------------------------
(* Guards *)

\* the header part shared by both extractors:
\* headers.get(AUTHORIZATION)?.to_str()?.strip_prefix("Bearer ")?
BearerOf(h) ==
    IF ~h.present THEN None
    ELSE IF ~h.ascii THEN None
    ELSE StripBearer(h)

\* the bearer-to-user-id part shared by both extractors: decode, then parse sub
VerifyBearer(bearer, t) ==
    LET token_data == Decode(bearer, SecretKey, t)
    IN  IF ~token_data.ok THEN None
        ELSE UuidParseStr(token_data.sub)

GuardOk(user_id, lookups, role) ==
    [err |-> "none", user_id |-> Some(user_id), lookups |-> lookups, role |-> role]

GuardErr(err, lookups, role) ==
    [err |-> err, user_id |-> None, lookups |-> lookups, role |-> role]

\* mutant: a token that fails verification is reported as a bad request
AuthUserBadTokenIsBadRequest(h, t) ==
    LET bearer == BearerOf(h)
    IN  IF ~IsSome(bearer) THEN GuardErr("AuthError", 0, None)
        ELSE LET user_id == VerifyBearer(Unwrap(bearer), t)
             IN  IF ~IsSome(user_id) THEN GuardErr("BadRequest", 0, None)
                 ELSE GuardOk(Unwrap(user_id), 0, None)

\* mutant: a token whose subject has no row in users is refused
AuthUserRequiresRow(h, t) ==
    LET bearer == BearerOf(h)
    IN  IF ~IsSome(bearer) THEN GuardErr("AuthError", 0, None)
        ELSE LET user_id == VerifyBearer(Unwrap(bearer), t)
             IN  IF ~IsSome(user_id) THEN GuardErr("AuthError", 0, None)
                 ELSE IF Unwrap(user_id) \notin DOMAIN users
                 THEN GuardErr("AuthError", 0, None)
                 ELSE GuardOk(Unwrap(user_id), 0, None)

\* AuthUser::from_request_parts
AuthUserFromRequestParts(h, t) ==
    LET bearer == BearerOf(h)
    IN  IF ~IsSome(bearer) THEN GuardErr("AuthError", 0, None)
        ELSE LET user_id == VerifyBearer(Unwrap(bearer), t)
             IN  IF ~IsSome(user_id) THEN GuardErr("AuthError", 0, None)
                 ELSE GuardOk(Unwrap(user_id), 0, None)

\* the literal role that elevates
AdminRole == "admin"

\* mutant: any user that has a row is elevated
AdminRoleCheckAnyRow(user_id, user_role) ==
    IF ~IsSome(user_role) THEN GuardErr("AuthError", 1, None)
    ELSE GuardOk(user_id, 1, user_role)

\* the decision on the fetched role row
AdminRoleCheck(user_id, user_role) ==
    IF ~IsSome(user_role) THEN GuardErr("AuthError", 1, None)
    ELSE IF Unwrap(user_role) /= AdminRole THEN GuardErr("AuthError", 1, user_role)
    ELSE GuardOk(user_id, 1, user_role)

\* mutant: the role is the one the user had when the presented token was
\* issued to the client
AdminUserRoleAtIssue(h, t, table, lookupFails) ==
    LET bearer == BearerOf(h)
    IN  IF ~IsSome(bearer) THEN GuardErr("AuthError", 0, None)
        ELSE LET user_id == VerifyBearer(Unwrap(bearer), t)
             IN  IF ~IsSome(user_id) THEN GuardErr("AuthError", 0, None)
                 ELSE IF lookupFails THEN GuardErr("InternalError", 1, None)
                 ELSE AdminRoleCheck(
                          Unwrap(user_id),
                          IF IsSome(held) /\ Unwrap(held).token = Unwrap(bearer)
                          THEN Some(Unwrap(held).role)
                          ELSE IF Unwrap(user_id) \in DOMAIN table
                          THEN Some(table[Unwrap(user_id)].role) ELSE None)

\* mutant: the role of the subject the token names is looked up before the
\* token is verified
AdminUserLookupFirst(h, t, table, lookupFails) ==
    LET bearer == BearerOf(h)
    IN  IF ~IsSome(bearer) THEN GuardErr("AuthError", 0, None)
        ELSE LET user_id == VerifyBearer(Unwrap(bearer), t)
             IN  IF lookupFails THEN GuardErr("InternalError", 1, None)
                 ELSE IF ~IsSome(user_id) THEN GuardErr("AuthError", 1, None)
                 ELSE AdminRoleCheck(
                          Unwrap(user_id),
                          IF Unwrap(user_id) \in DOMAIN table
                          THEN Some(table[Unwrap(user_id)].role) ELSE None)

\* AdminUser::from_request_parts; lookupFails: the role query returns Err
AdminUserFromRequestParts(h, t, table, lookupFails) ==
    LET bearer == BearerOf(h)
    IN  IF ~IsSome(bearer) THEN GuardErr("AuthError", 0, None)
        ELSE LET user_id == VerifyBearer(Unwrap(bearer), t)
             IN  IF ~IsSome(user_id) THEN GuardErr("AuthError", 0, None)
                 ELSE IF lookupFails THEN GuardErr("InternalError", 1, None)
                 ELSE AdminRoleCheck(
                          Unwrap(user_id),
                          IF Unwrap(user_id) \in DOMAIN table
                          THEN Some(table[Unwrap(user_id)].role) ELSE None)

----------------------------------------------------------------------------
(* Storage *)

\* column defaults of table users (the schema is not part of the sources)
DefaultRole == "user"

DefaultUniversityMajorSet == FALSE

\* bcrypt::hash and bcrypt::verify
Hash(password) == [alg |-> "bcrypt", pw |-> password]

Verify(password, password_hash) == password_hash.pw = password

\* SELECT ... FROM users WHERE email = $1
SelectByEmail(table, email) == {id \in DOMAIN table : table[id].email = email}

\* SELECT ... FROM users WHERE google_id = $1
SelectByGoogleId(table, sub) ==
    {id \in DOMAIN table : table[id].google_id = Some(sub)}

\* fetch_optional: one of the rows the query matches, or None
FetchOptional(ids) == IF ids = {} THEN {None} ELSE {Some(id) : id \in ids}

\* the unique constraint users_email_key
EmailUnique(table) ==
    \A i, j \in DOMAIN table : i /= j => table[i].email /= table[j].email

\* UserResponse built from a row
UserResponse(id, row) ==
    [id |-> id, full_name |-> row.full_name, email |-> row.email,
     image |-> row.image, role |-> row.role]

----------------------------------------------------------------------------
(* Responses *)

Idle ==
    [op |-> "idle", req |-> None, err |-> "none", status |-> 0, message |-> "",
     token |-> None, user |-> None, principal |-> None, ran |-> FALSE,
     lookups |-> 0, role |-> None, branch |-> "none", emailLookup |-> FALSE,
     needs |-> FALSE, failed |-> "none", steps |-> << >>, users0 |-> << >>,
     stats0 |-> {}, at |-> 0]

\* a response under construction: the request, and the tables and the clock
\* as the handler found them
Begin(op, req) ==
    [Idle EXCEPT !.op = op, !.req = req, !.status = 200,
                 !.users0 = users, !.stats0 = stats, !.at = now]

\* Err(e).into_response()
Failed(r, err, msg) ==
    [r EXCEPT !.err = err, !.status = StatusOf(err), !.message = MessageOf(err, msg)]

\* the statement or call `step` was issued and returned Ok
Ran(r, step) == [r EXCEPT !.steps = Append(@, step)]

\* the response when the statement or call `step` was issued and returned Err
FailedAt(r, step, err) ==
    [Failed(Ran(r, step), err, "") EXCEPT !.failed = step]

\* the guard's result copied into the response record
WithGuard(r, g) ==
    [r EXCEPT !.principal = g.user_id, !.lookups = g.lookups, !.role = g.role]

\* a callback process that has not received its request
IdleCall ==
    [pc |-> "idle", info |-> None, existing_user |-> None, email_user |-> None,
     user |-> None, wrote |-> None, err |-> "none", status |-> 0,
     token |-> None, needs |-> FALSE, users0 |-> << >>, stats0 |-> {}]

----------------------------------------------------------------------------
(* Initial state: empty tables, no token issued *)

Init ==
    /\ users = << >>
    /\ stats = {}
    /\ nextId = 1
    /\ now = 0
    /\ held = None
    /\ resp = Idle
    /\ calls = [p \in Procs |-> IdleCall]

----------------------------------------------------------------------------
(* Environment: the clock, the client, and changes made to the tables by the
   storage collaborator outside the API *)

Tick ==
    /\ resp.op = "idle"
    /\ \E t \in Instants : t > now /\ now' = t
    /\ UNCHANGED <<users, stats, nextId, held, resp, calls>>

\* the client receives the response and stores a token it carries, with the
\* id of the user object that came with it
ClientReceive ==
    /\ resp.op /= "idle"
    /\ held' = IF IsSome(resp.token)
               THEN Some([token |-> Unwrap(resp.token),
                          user_id |-> Unwrap(resp.user).id,
                          role |-> Unwrap(resp.user).role])
               ELSE held
    /\ resp' = Idle
    /\ UNCHANGED <<users, stats, nextId, now, calls>>

Roles == {DefaultRole, AdminRole}

OperatorSetRole ==
    /\ resp.op = "idle"
    /\ \E id \in DOMAIN users, r \in Roles :
          /\ users[id].role /= r
          /\ users' = [users EXCEPT ![id].role = r]
    /\ UNCHANGED <<stats, nextId, now, held, resp, calls>>

OperatorDeleteUser ==
    /\ resp.op = "idle"
    /\ \E id \in DOMAIN users :
          /\ users' = [i \in DOMAIN users \ {id} |-> users[i]]
          /\ stats' = stats \ {id}
    /\ UNCHANGED <<nextId, now, held, resp, calls>>

----------------------------------------------------------------------------
(* POST /auth/signup *)

SignupFailPoints == {"none", "select_email", "insert_user", "insert_stats"}

\* the row INSERT INTO users (id, email, password_hash, full_name, ...) creates
SignupRow(req) ==
    [email |-> req.email, password_hash |-> Some(Hash(req.password)),
     full_name |-> req.full_name, image |-> None, role |-> DefaultRole,
     google_id |-> None, university |-> None, major |-> None,
     university_major_set |-> DefaultUniversityMajorSet]

\* signup: the tables and the response it leaves
SignupResult(req, failAt, user_id) ==
    LET r == Begin("signup", req)
        same == [users |-> users, stats |-> stats, nextId |-> nextId]
        inserted == users @@ (user_id :> SignupRow(req))
        withUser == [users |-> inserted, stats |-> stats, nextId |-> nextId + 1]
    IN  IF failAt = "select_email"
        THEN same @@ [resp |-> FailedAt(r, "select_email", "DatabaseError")]
        ELSE IF SelectByEmail(users, req.email) /= {}
        THEN same @@ [resp |-> Failed(r, "UserExists", "")]
        ELSE IF failAt = "insert_user"
        THEN same @@ [resp |-> FailedAt(r, "insert_user", "DatabaseError")]
        ELSE IF failAt = "insert_stats"
        THEN withUser @@ [resp |-> FailedAt(r, "insert_stats", "DatabaseError")]
        ELSE [users |-> inserted, stats |-> stats \cup {user_id},
              nextId |-> nextId + 1,
              resp |-> [r EXCEPT
                          !.token = Some(CreateToken(user_id, now)),
                          !.user = Some(UserResponse(user_id, inserted[user_id]))]]

Signup ==
    /\ resp.op = "idle"
    /\ nextId <= MaxUsers
    /\ \E email \in Emails, password \in Passwords, full_name \in FullNames,
          failAt \in SignupFailPoints :
          LET out == SignupResult(
                         [email |-> email, password |-> password,
                          full_name |-> full_name], failAt, nextId)
          IN  /\ users' = out.users
              /\ stats' = out.stats
              /\ nextId' = out.nextId
              /\ resp' = out.resp
    /\ UNCHANGED <<now, held, calls>>

----------------------------------------------------------------------------
(* POST /auth/login *)

LoginFailPoints == {"none", "select_email"}

GoogleOnlyMessage ==
    "This account uses Google Sign-In. Please use the 'Sign in with Google' button."

\* mutant: the password is not verified for an account that has one
LoginResultUnverified(req, failAt, found) ==
    LET r == Begin("login", req)
    IN  IF failAt = "select_email" THEN FailedAt(r, "select_email", "DatabaseError")
        ELSE IF ~IsSome(found) THEN Failed(r, "AuthError", "")
        ELSE LET id == Unwrap(found)
                 user == users[id]
             IN  IF ~IsSome(user.password_hash)
                 THEN Failed(r, "BadRequest", GoogleOnlyMessage)
                 ELSE [r EXCEPT !.token = Some(CreateToken(id, now)),
                                !.user = Some(UserResponse(id, user))]

\* login: the response it leaves; `found` is what fetch_optional returned
LoginResult(req, failAt, found) ==
    LET r == Begin("login", req)
    IN  IF failAt = "select_email" THEN FailedAt(r, "select_email", "DatabaseError")
        ELSE IF ~IsSome(found) THEN Failed(r, "AuthError", "")
        ELSE LET id == Unwrap(found)
                 user == users[id]
             IN  IF ~IsSome(user.password_hash)
                 THEN Failed(r, "BadRequest", GoogleOnlyMessage)
                 ELSE IF ~Verify(req.password, Unwrap(user.password_hash))
                 THEN Failed(r, "AuthError", "")
                 ELSE [r EXCEPT !.token = Some(CreateToken(id, now)),
                                !.user = Some(UserResponse(id, user))]

Login ==
    /\ resp.op = "idle"
    /\ \E email \in Emails, password \in LoginPasswords, failAt \in LoginFailPoints :
          \E found \in FetchOptional(SelectByEmail(users, email)) :
             resp' = LoginResult([email |-> email, password |-> password],
                                 failAt, found)
    /\ UNCHANGED <<users, stats, nextId, now, held, calls>>

----------------------------------------------------------------------------
(* Route table and guarded handlers *)

UsersRoutes ==
    {"PUT /users/profile", "GET /users/profile", "POST /users/avatar",
     "PUT /users/password"}

ChallengesRoutes == {"GET /challenges/current", "GET /challenges/leaderboard"}

AdminRoutes ==
    {"GET /admin/resources", "POST /admin/resources", "GET /admin/resources/:id",
     "PUT /admin/resources/:id", "DELETE /admin/resources/:id",
     "PATCH /admin/resources/:id/visibility", "GET /admin/challenges",
     "POST /admin/challenges", "GET /admin/challenges/:id",
     "PUT /admin/challenges/:id", "DELETE /admin/challenges/:id",
     "PATCH /admin/challenges/:id/visibility"}

OpenRoutes ==
    {"GET /leaderboards", "GET /resources", "GET /resources/:id", "POST /contact"}

Routes ==
    UsersRoutes \cup ChallengesRoutes \cup AdminRoutes \cup OpenRoutes
        \cup {"POST /auth/complete-profile"}

\* create_app: the handler each route is bound to
RouteHandler(route) ==
    CASE route = "GET /leaderboards" -> "get_leaderboards"
      [] route = "GET /resources" -> "get_resources"
      [] route = "GET /resources/:id" -> "get_resource_by_id"
      [] route = "POST /contact" -> "create_contact"
      [] route = "POST /auth/complete-profile" -> "complete_profile"
      [] route = "GET /challenges/current" -> "get_current_challenge"
      [] route = "GET /challenges/leaderboard" -> "get_challenge_leaderboard"
      [] route = "PUT /users/profile" -> "update_user_profile"
      [] route = "GET /users/profile" -> "get_user_profile"
      [] route = "POST /users/avatar" -> "upload_user_avatar"
      [] route = "PUT /users/password" -> "update_user_password"
      [] route = "GET /admin/resources" -> "admin_get_resources"
      [] route = "POST /admin/resources" -> "admin_create_resource_multipart"
      [] route = "GET /admin/resources/:id" -> "admin_get_resource_by_id"
      [] route = "PUT /admin/resources/:id" -> "admin_update_resource_multipart"
      [] route = "DELETE /admin/resources/:id" -> "admin_delete_resource"
      [] route = "PATCH /admin/resources/:id/visibility"
            -> "admin_patch_resource_visibility"
      [] route = "GET /admin/challenges" -> "admin_get_challenges"
      [] route = "POST /admin/challenges" -> "admin_create_challenge"
      [] route = "GET /admin/challenges/:id" -> "admin_get_challenge_by_id"
      [] route = "PUT /admin/challenges/:id" -> "admin_update_challenge"
      [] route = "DELETE /admin/challenges/:id" -> "admin_delete_challenge"
      [] route = "PATCH /admin/challenges/:id/visibility"
            -> "admin_patch_challenge_visibility"

AuthUserHandlers ==
    {"get_current_challenge", "get_challenge_leaderboard", "get_user_profile",
     "update_user_profile", "upload_user_avatar", "update_user_password",
     "complete_profile"}

AdminUserHandlers ==
    {"admin_get_resources", "admin_get_resource_by_id",
     "admin_create_resource_multipart", "admin_update_resource_multipart",
     "admin_delete_resource", "admin_patch_resource_visibility",
     "admin_get_challenges", "admin_get_challenge_by_id", "admin_create_challenge",
     "admin_update_challenge", "admin_delete_challenge",
     "admin_patch_challenge_visibility"}

\* mutant: admin_delete_resource takes AuthUser instead of AdminUser
HandlerGuardDeleteOpen(handler) ==
    IF handler \in AuthUserHandlers \cup {"admin_delete_resource"} THEN "AuthUser"
    ELSE IF handler \in AdminUserHandlers THEN "AdminUser"
    ELSE "None"

\* the guard a handler takes as its first extractor argument
HandlerGuard(handler) ==
    IF handler \in AuthUserHandlers THEN "AuthUser"
    ELSE IF handler \in AdminUserHandlers THEN "AdminUser"
    ELSE "None"

\* the extractor of a handler, run on the request before the handler body
RunGuard(handler, h, t, table, lookupFails) ==
    CASE HandlerGuard(handler) = "AuthUser" -> AuthUserFromRequestParts(h, t)
      [] HandlerGuard(handler) = "AdminUser"
            -> AdminUserFromRequestParts(h, t, table, lookupFails)
      [] OTHER -> [err |-> "none", user_id |-> None, lookups |-> 0, role |-> None]

\* whether the role query of the extractor fails; only AdminUser issues one
LookupOutcomes(handler) ==
    IF HandlerGuard(handler) = "AdminUser" THEN BOOLEAN ELSE {FALSE}

\* tokens signed by somebody who does not know the secret
ForgedTokens == {Encode(ClaimsNew(u, now), OtherKey) : u \in UserIds}

\* the Authorization headers a client can send
ClientHeaders ==
    {NoHeader, OpaqueHeader, TextHeader("Bearer ", MalformedToken)}
        \cup {TextHeader("Bearer ", t) : t \in ForgedTokens}
        \cup (IF IsSome(held)
              THEN {TextHeader(p, Unwrap(held).token) : p \in HeaderPrefixes}
              ELSE {})

\* the handlers whose bodies write table users
WritingHandlers ==
    {"update_user_profile", "upload_user_avatar", "update_user_password",
     "complete_profile"}

\* the response once the extractor of the route's handler has run on header h:
\* the rejection, or the record the handler body continues from
Guarded(route, h, lookupFails) ==
    LET handler == RouteHandler(route)
        g == RunGuard(handler, h, now, users, lookupFails)
        r == WithGuard(
                 Begin("route", [route |-> route, header |-> h,
                                 lookupFails |-> lookupFails]), g)
    IN  IF g.err = "InternalError"
        THEN FailedAt(r, "select_role", g.err)
        ELSE IF g.err /= "none" THEN Failed(r, g.err, "")
        ELSE [r EXCEPT !.ran = TRUE]

\* mutant: a rejected request costs the user named in the header the
\* statistics row
RouteRequestRejectionWrites ==
    /\ resp.op = "idle"
    /\ \E route \in Routes, h \in ClientHeaders :
       \E lookupFails \in LookupOutcomes(RouteHandler(route)) :
          /\ RouteHandler(route) \notin WritingHandlers
          /\ resp' = Guarded(route, h, lookupFails)
          /\ stats' = IF resp'.err = "AuthError" /\ h.present /\ h.rest.wf
                      THEN stats \ {h.rest.sub.val}
                      ELSE stats
    /\ UNCHANGED <<users, nextId, now, held, calls>>

\* a request to a routed handler whose body writes neither users nor
\* user_stats: the extractor runs, and the handler body runs only when the
\* extractor returned Ok
RouteRequest ==
    /\ resp.op = "idle"
    /\ \E route \in Routes, h \in ClientHeaders :
       \E lookupFails \in LookupOutcomes(RouteHandler(route)) :
          /\ RouteHandler(route) \notin WritingHandlers
          /\ resp' = Guarded(route, h, lookupFails)
    /\ UNCHANGED <<users, stats, nextId, now, held, calls>>

\* a request to a handler that writes users: the extractor, then the body.
\* The body of the request is deserialized, and the handler body run, only
\* when the extractor returned Ok.
\* the extractor returned Ok
Admits(route, h) == Guarded(route, h, FALSE).ran

\* the extractor returned an error: the response is the guard's, no table
\* is written
WritingRejected(route, h) ==
    /\ users' = users
    /\ resp' = Guarded(route, h, FALSE)

\* the request as the handler body receives it
Admitted(route, h, body) ==
    [Guarded(route, h, FALSE) EXCEPT
        !.req = [route |-> route, header |-> h, lookupFails |-> FALSE,
                 body |-> body]]

\* the handler body leaves the table and the response of out
Served(out) ==
    /\ users' = out.users
    /\ resp' = out.resp

----------------------------------------------------------------------------
(* PUT /users/password *)

UpdatePasswordFailPoints == {"none", "select_user", "update_password"}

\* UpdatePasswordRequest
UpdatePasswordRequests ==
    [current_password : LoginPasswords, new_password : NewPasswords]

GoogleNoPasswordMessage ==
    "This account uses Google Sign-In and doesn't have a password."

\* mutant: the current password is not verified
UpdateUserPasswordUnverified(r, user_id, req, failAt) ==
    LET same(x) == [users |-> users, resp |-> x]
    IN  IF failAt = "select_user"
        THEN same(FailedAt(r, "select_user", "DatabaseError"))
        ELSE IF user_id \notin DOMAIN users THEN same(Failed(r, "NotFound", ""))
        ELSE IF ~IsSome(users[user_id].password_hash)
        THEN same(Failed(r, "BadRequest", GoogleNoPasswordMessage))
        ELSE IF failAt = "update_password"
        THEN same(FailedAt(r, "update_password", "DatabaseError"))
        ELSE [users |-> [users EXCEPT ![user_id].password_hash =
                                          Some(Hash(req.new_password))],
              resp |-> r]

\* mutant: an account without a password gets the new password set
UpdateUserPasswordSetsMissing(r, user_id, req, failAt) ==
    IF user_id \notin DOMAIN users
    THEN [users |-> users, resp |-> Failed(r, "NotFound", "")]
    ELSE [users |-> [users EXCEPT ![user_id].password_hash =
                                      Some(Hash(req.new_password))],
          resp |-> r]

\* update_user_password, after the extractor
UpdateUserPasswordResult(r, user_id, req, failAt) ==
    LET same(x) == [users |-> users, resp |-> x]
    IN  IF failAt = "select_user"
        THEN same(FailedAt(r, "select_user", "DatabaseError"))
        ELSE IF user_id \notin DOMAIN users THEN same(Failed(r, "NotFound", ""))
        ELSE IF ~IsSome(users[user_id].password_hash)
        THEN same(Failed(r, "BadRequest", GoogleNoPasswordMessage))
        ELSE IF ~Verify(req.current_password, Unwrap(users[user_id].password_hash))
        THEN same(Failed(r, "AuthError", ""))
        ELSE IF failAt = "update_password"
        THEN same(FailedAt(r, "update_password", "DatabaseError"))
        ELSE [users |-> [users EXCEPT ![user_id].password_hash =
                                          Some(Hash(req.new_password))],
              resp |-> r]

UpdateUserPassword ==
    /\ resp.op = "idle"
    /\ \E h \in ClientHeaders :
          IF ~Admits("PUT /users/password", h)
          THEN WritingRejected("PUT /users/password", h)
          ELSE \E body \in UpdatePasswordRequests, failAt \in UpdatePasswordFailPoints :
                  LET r == Admitted("PUT /users/password", h, body)
                  IN  Served(UpdateUserPasswordResult(r, Unwrap(r.principal), body, failAt))
    /\ UNCHANGED <<stats, nextId, now, held, calls>>

----------------------------------------------------------------------------
(* PUT /users/profile *)

UpdateProfileFailPoints == {"none", "select_user", "select_email", "update_profile"}

\* UpdateProfileRequest
UpdateProfileRequests ==
    [full_name : OptionOf(FullNames), email : OptionOf(Emails),
     image : OptionOf(GooglePictures)]

\* update_user_profile, after the extractor
UpdateUserProfileResult(r, user_id, req, failAt) ==
    LET same(x) == [users |-> users, resp |-> x]
    IN  IF failAt = "select_user"
        THEN same(FailedAt(r, "select_user", "DatabaseError"))
        ELSE IF user_id \notin DOMAIN users THEN same(Failed(r, "NotFound", ""))
        ELSE
        LET current_user == users[user_id]
            changing == IsSome(req.email) /\ Unwrap(req.email) /= current_user.email
            updated ==
                [users EXCEPT
                    ![user_id].full_name = UnwrapOr(req.full_name, current_user.full_name),
                    ![user_id].email = UnwrapOr(req.email, current_user.email),
                    ![user_id].image = IF IsSome(req.image) THEN req.image
                                       ELSE current_user.image]
        IN  IF changing /\ failAt = "select_email"
            THEN same(FailedAt(r, "select_email", "DatabaseError"))
            ELSE IF changing /\ SelectByEmail(users, Unwrap(req.email)) \ {user_id} /= {}
            THEN same(Failed(r, "UserExists", ""))
            ELSE IF failAt = "update_profile"
            THEN same(FailedAt(r, "update_profile", "DatabaseError"))
            ELSE [users |-> updated,
                  resp |-> [r EXCEPT !.user =
                                Some(UserResponse(user_id, updated[user_id]))]]

UpdateUserProfile ==
    /\ resp.op = "idle"
    /\ \E h \in ClientHeaders :
          IF ~Admits("PUT /users/profile", h)
          THEN WritingRejected("PUT /users/profile", h)
          ELSE \E body \in UpdateProfileRequests, failAt \in UpdateProfileFailPoints :
                  LET r == Admitted("PUT /users/profile", h, body)
                  IN  Served(UpdateUserProfileResult(r, Unwrap(r.principal), body, failAt))
    /\ UNCHANGED <<stats, nextId, now, held, calls>>

----------------------------------------------------------------------------
(* POST /users/avatar *)

UploadAvatarFailPoints == {"none", "multipart", "save_file", "update_image"}

\* upload_user_avatar, after the extractor; req.avatar: the form has a field
\* named "avatar"
UploadUserAvatarResult(r, user_id, req, failAt) ==
    LET same(x) == [users |-> users, resp |-> x]
    IN  IF failAt = "multipart"
        THEN same(FailedAt(r, "multipart", "InternalError"))
        ELSE IF ~req.avatar
        THEN same(Failed(r, "BadRequest", "No avatar file provided"))
        ELSE IF failAt = "save_file"
        THEN same(FailedAt(r, "save_file", "InternalError"))
        ELSE IF failAt = "update_image"
        THEN same(FailedAt(r, "update_image", "DatabaseError"))
        ELSE [users |-> IF user_id \in DOMAIN users
                        THEN [users EXCEPT ![user_id].image = Some(UploadedImage)]
                        ELSE users,
              resp |-> r]

UploadUserAvatar ==
    /\ resp.op = "idle"
    /\ \E h \in ClientHeaders :
          IF ~Admits("POST /users/avatar", h)
          THEN WritingRejected("POST /users/avatar", h)
          ELSE \E body \in [avatar : BOOLEAN], failAt \in UploadAvatarFailPoints :
                  LET r == Admitted("POST /users/avatar", h, body)
                  IN  Served(UploadUserAvatarResult(r, Unwrap(r.principal), body, failAt))
    /\ UNCHANGED <<stats, nextId, now, held, calls>>

----------------------------------------------------------------------------
(* POST /auth/complete-profile *)

CompleteProfileFailPoints == {"none", "update_profile"}

\* mutant: the UPDATE has no WHERE clause
CompleteProfileEveryRow(r, user_id, req, failAt) ==
    IF failAt = "update_profile"
    THEN [users |-> users, resp |-> FailedAt(r, "update_profile", "DatabaseError")]
    ELSE [users |-> [id \in DOMAIN users |->
                        [users[id] EXCEPT !.university = Some(req.university),
                                          !.major = Some(req.major),
                                          !.university_major_set = TRUE]],
          resp |-> r]

\* complete_profile, after the extractor
CompleteProfileResult(r, user_id, req, failAt) ==
    IF failAt = "update_profile"
    THEN [users |-> users, resp |-> FailedAt(r, "update_profile", "DatabaseError")]
    ELSE [users |-> IF user_id \in DOMAIN users
                    THEN [users EXCEPT ![user_id].university = Some(req.university),
                                       ![user_id].major = Some(req.major),
                                       ![user_id].university_major_set = TRUE]
                    ELSE users,
          resp |-> r]

CompleteProfile ==
    /\ resp.op = "idle"
    /\ \E h \in ClientHeaders :
          IF ~Admits("POST /auth/complete-profile", h)
          THEN WritingRejected("POST /auth/complete-profile", h)
          ELSE \E body \in ProfileCompletions, failAt \in CompleteProfileFailPoints :
                  LET r == Admitted("POST /auth/complete-profile", h, body)
                  IN  Served(CompleteProfileResult(r, Unwrap(r.principal), body, failAt))
    /\ UNCHANGED <<stats, nextId, now, held, calls>>

----------------------------------------------------------------------------
(* GET /auth/google *)

\* google_auth_init: the CSRF token is generated, put in the authorization
\* URL and dropped (`_csrf_token`); the response redirects to the provider
GoogleAuthInit ==
    /\ resp.op = "idle"
    /\ \E csrf \in CsrfStates :
          resp' = [Begin("google_auth_init", [state |-> csrf]) EXCEPT
                      !.status = 307]
    /\ UNCHANGED <<users, stats, nextId, now, held, calls>>

----------------------------------------------------------------------------
(* GET /auth/google/callback *)

\* GoogleUserInfo, as the userinfo endpoint returns it
GoogleUserInfos ==
    [sub : GoogleSubs, email : Emails, name : OptionOf(GoogleNames),
     picture : OptionOf(GooglePictures)]

CallbackFailPoints ==
    {"none", "select_google", "update_existing", "select_email", "update_link",
     "insert_user", "insert_stats", "select_flag"}

\* mutant: the refresh keeps an image the row already has
UpdateExistingKeepsImage(table, info, user) ==
    [id \in DOMAIN table |->
        IF table[id].google_id = Some(info.sub)
        THEN [table[id] EXCEPT !.email = info.email,
                               !.full_name = UnwrapOr(info.name, user.full_name),
                               !.image = IF IsSome(@) THEN @ ELSE info.picture]
        ELSE table[id]]

\* mutant: a missing display name is written as the empty string
UpdateExistingNoFallback(table, info, user) ==
    [id \in DOMAIN table |->
        IF table[id].google_id = Some(info.sub)
        THEN [table[id] EXCEPT !.email = info.email,
                               !.full_name = UnwrapOr(info.name, ""),
                               !.image = info.picture]
        ELSE table[id]]

\* mutant: the refresh writes the role the schema gives new rows
UpdateExistingResetsRole(table, info, user) ==
    [id \in DOMAIN table |->
        IF table[id].google_id = Some(info.sub)
        THEN [table[id] EXCEPT !.email = info.email,
                               !.full_name = UnwrapOr(info.name, user.full_name),
                               !.image = info.picture,
                               !.role = DefaultRole]
        ELSE table[id]]

\* UPDATE users SET email = $1, full_name = $2, image = $3 WHERE google_id = $4
\* `user` is the row the google_id lookup returned
UpdateExisting(table, info, user) ==
    [id \in DOMAIN table |->
        IF table[id].google_id = Some(info.sub)
        THEN [table[id] EXCEPT !.email = info.email,
                               !.full_name = UnwrapOr(info.name, user.full_name),
                               !.image = info.picture]
        ELSE table[id]]

\* mutant: linking turns the account into a Google-only one
UpdateLinkDropsPassword(table, info, id) ==
    [table EXCEPT ![id].google_id = Some(info.sub),
                  ![id].password_hash = None,
                  ![id].image = IF IsSome(info.picture) THEN info.picture ELSE @]

\* UPDATE users SET google_id = $1, image = COALESCE($2, image) WHERE id = $3
UpdateLink(table, info, id) ==
    [table EXCEPT ![id].google_id = Some(info.sub),
                  ![id].image = IF IsSome(info.picture) THEN info.picture ELSE @]

\* mutant: no fallback for a missing display name
GoogleRowNoFallback(info) ==
    [email |-> info.email, password_hash |-> None,
     full_name |-> UnwrapOr(info.name, ""), image |-> info.picture,
     role |-> DefaultRole, google_id |-> Some(info.sub),
     university |-> None, major |-> None,
     university_major_set |-> DefaultUniversityMajorSet]

\* the row INSERT INTO users (id, email, password_hash, full_name, google_id,
\* image, created_at) VALUES ($1, $2, NULL, $3, $4, $5, NOW()) creates
GoogleRow(info) ==
    [email |-> info.email, password_hash |-> None,
     full_name |-> UnwrapOr(info.name, info.email), image |-> info.picture,
     role |-> DefaultRole, google_id |-> Some(info.sub),
     university |-> None, major |-> None,
     university_major_set |-> DefaultUniversityMajorSet]

\* mutant: the need is inferred from an empty or missing university
NeedsCompletionFromFields(table, id) ==
    IF id \in DOMAIN table
    THEN table[id].university \in {None, Some("")}
    ELSE TRUE

\* needs_profile.map(|(set,)| !set).unwrap_or(true)
NeedsCompletion(table, id) ==
    IF id \in DOMAIN table THEN ~table[id].university_major_set ELSE TRUE

\* mutant: the token is minted before the flag read, and kept when it fails
CallbackFinishMintsFirst(r, table, st, nid, id, failAt) ==
    LET minted == [Ran(r, "create_token") EXCEPT
                      !.token = Some(CreateToken(id, now))]
    IN  IF failAt = "select_flag"
        THEN [users |-> table, stats |-> st, nextId |-> nid,
              resp |-> FailedAt(minted, "select_flag", "DatabaseError")]
        ELSE [users |-> table, stats |-> st, nextId |-> nid,
              resp |-> [Ran(minted, "select_flag") EXCEPT
                           !.status = 307,
                           !.user = Some(UserResponse(id, table[id])),
                           !.needs = NeedsCompletion(table, id)]]

\* the tail of the callback, once `id` is the resolved user: the flag read,
\* the token, the redirect
CallbackFinish(r, table, st, nid, id, failAt) ==
    IF failAt = "select_flag"
    THEN [users |-> table, stats |-> st, nextId |-> nid,
          resp |-> FailedAt(r, "select_flag", "DatabaseError")]
    ELSE [users |-> table, stats |-> st, nextId |-> nid,
          resp |-> [Ran(Ran(r, "select_flag"), "create_token") EXCEPT
                             !.status = 307,
                             !.token = Some(CreateToken(id, now)),
                             !.user = Some(UserResponse(id, table[id])),
                             !.needs = NeedsCompletion(table, id)]]

\* the branch taken when the google_id lookup returned a row
CallbackExisting(r0, info, failAt, existing_id) ==
    LET r == [r0 EXCEPT !.branch = "existing"]
        same == [users |-> users, stats |-> stats, nextId |-> nextId]
        updated == UpdateExisting(users, info, users[existing_id])
    IN  IF failAt = "update_existing"
        THEN same @@ [resp |-> FailedAt(r, "update_existing", "DatabaseError")]
        ELSE IF ~EmailUnique(updated)
        THEN same @@ [resp |-> FailedAt(r, "update_existing",
                                        "DatabaseErrorUniqueEmail")]
        ELSE CallbackFinish(Ran(r, "update_existing"), updated, stats, nextId,
                            existing_id, failAt)

\* the branch taken when the email lookup returned a row
CallbackLink(r0, info, failAt, email_id) ==
    LET r == [r0 EXCEPT !.branch = "email", !.emailLookup = TRUE]
        same == [users |-> users, stats |-> stats, nextId |-> nextId]
    IN  IF failAt = "update_link"
        THEN same @@ [resp |-> FailedAt(r, "update_link", "DatabaseError")]
        ELSE CallbackFinish(Ran(r, "update_link"),
                            UpdateLink(users, info, email_id), stats, nextId,
                            email_id, failAt)

\* the branch taken when neither lookup returned a row
CallbackCreate(r0, info, failAt, user_id) ==
    LET r == [r0 EXCEPT !.branch = "create", !.emailLookup = TRUE]
        same == [users |-> users, stats |-> stats, nextId |-> nextId]
        inserted == users @@ (user_id :> GoogleRow(info))
    IN  IF failAt = "insert_user"
        THEN same @@ [resp |-> FailedAt(r, "insert_user", "DatabaseError")]
        ELSE IF failAt = "insert_stats"
        THEN [users |-> inserted, stats |-> stats, nextId |-> nextId + 1,
              resp |-> FailedAt(Ran(r, "insert_user"), "insert_stats",
                                "DatabaseError")]
        ELSE CallbackFinish(Ran(Ran(r, "insert_user"), "insert_stats"),
                            inserted, stats \cup {user_id}, nextId + 1,
                            user_id, failAt)

\* the body of google_auth_callback: the tables and the response it leaves.
\* existing_user and email_user are what the two fetch_optional lookups
\* return. query.state is not read
CallbackHandled(req, existing_user, email_user, user_id) ==
    LET r0 == Begin("google_auth_callback", [info |-> None])
        same == [users |-> users, stats |-> stats, nextId |-> nextId]
        info == req.info
        failAt == req.failAt
        r == Ran(Ran([r0 EXCEPT !.req = [info |-> Some(info)]],
                     "exchange_code"), "userinfo")
        rg == Ran(r, "select_google")
        re == Ran(rg, "select_email")
    IN  IF ~req.exchangeOk
        THEN same @@ [resp |-> FailedAt(r0, "exchange_code", "InternalError")]
        ELSE IF ~req.userinfoOk
        THEN same @@ [resp |-> FailedAt(Ran(r0, "exchange_code"), "userinfo",
                                        "InternalError")]
        ELSE IF failAt = "select_google"
        THEN same @@ [resp |-> FailedAt(r, "select_google", "DatabaseError")]
        ELSE IF IsSome(existing_user)
        THEN CallbackExisting(rg, info, failAt, Unwrap(existing_user))
        ELSE IF failAt = "select_email"
        THEN same @@ [resp |-> FailedAt([rg EXCEPT !.emailLookup = TRUE],
                                        "select_email", "DatabaseError")]
        ELSE IF IsSome(email_user)
        THEN CallbackLink(re, info, failAt, Unwrap(email_user))
        ELSE CallbackCreate(re, info, failAt, user_id)

QueryRejectionMessage == "Failed to deserialize query string"

\* Query<OAuthCallbackQuery> failed: the handler body does not run
CallbackRejected ==
    [users |-> users, stats |-> stats, nextId |-> nextId,
     resp |-> Failed(Begin("google_auth_callback", [info |-> None]),
                     "QueryRejection", QueryRejectionMessage)]

\* mutant: the state parameter is compared with an expected value before
\* the code is exchanged
GoogleCallbackChecksState(req, existing_user, email_user, user_id) ==
    IF req.state = None THEN CallbackRejected
    ELSE IF req.state /= Some("s1")
    THEN [CallbackRejected EXCEPT
             !.resp = Failed(Begin("google_auth_callback", [info |-> None]),
                             "BadRequest", "Invalid state")]
    ELSE CallbackHandled(req, existing_user, email_user, user_id)

\* google_auth_callback: the Query extractor, which requires the fields code
\* and state, then the body
GoogleCallbackResult(req, existing_user, email_user, user_id) ==
    IF req.state = None THEN CallbackRejected
    ELSE CallbackHandled(req, existing_user, email_user, user_id)

\* what the provider and the database do to one callback: the code exchange
\* fails, or the userinfo fetch fails, or both succeed, the provider returns
\* `info` and at most one statement fails
NoUserInfo == [sub |-> "", email |-> "", name |-> None, picture |-> None]

\* the requests whose query string carries a state parameter
CallbackQueries ==
    [exchangeOk : {FALSE}, userinfoOk : {FALSE}, info : {NoUserInfo},
     failAt : {"none"}, state : {Some(s) : s \in CsrfStates}]
        \cup [exchangeOk : {TRUE}, userinfoOk : {FALSE}, info : {NoUserInfo},
              failAt : {"none"}, state : {Some(s) : s \in CsrfStates}]
        \cup [exchangeOk : {TRUE}, userinfoOk : {TRUE}, info : GoogleUserInfos,
              failAt : CallbackFailPoints, state : {Some(s) : s \in CsrfStates}]

\* those, and the request without a state parameter
CallbackInputs ==
    CallbackQueries
        \cup {[exchangeOk |-> FALSE, userinfoOk |-> FALSE, info |-> NoUserInfo,
               failAt |-> "none", state |-> None]}

GoogleAuthCallback ==
    /\ resp.op = "idle"
    /\ \E req \in CallbackInputs :
          \E existing_user \in FetchOptional(SelectByGoogleId(users, req.info.sub)),
             email_user \in FetchOptional(SelectByEmail(users, req.info.email)) :
             \E out \in {GoogleCallbackResult(req, existing_user, email_user, nextId)} :
                 /\ out.nextId <= MaxUsers + 1
                 /\ users' = out.users
                 /\ stats' = out.stats
                 /\ nextId' = out.nextId
                 /\ resp' = out.resp
    /\ UNCHANGED <<now, held, calls>>

----------------------------------------------------------------------------
(* GET /auth/google/callback, statement by statement: each await on the pool
   is one step, and the steps of concurrent callbacks interleave. The
   database is healthy: a statement fails only on a constraint or, for
   fetch_one, on an empty result. *)

\* the process answers with Err(err)
CallFailed(c, err) ==
    [c EXCEPT !.pc = "done", !.err = err, !.status = StatusOf(err)]

\* exchange_code and the userinfo fetch succeed; the provider returns info
CallBegin(p) ==
    /\ calls[p].pc = "idle"
    /\ \E info \in GoogleUserInfos :
          calls' = [calls EXCEPT ![p] =
                       [@ EXCEPT !.pc = "select_google", !.info = Some(info),
                                 !.users0 = users, !.stats0 = stats]]
    /\ UNCHANGED <<users, stats, nextId, now, held, resp>>

\* SELECT ... FROM users WHERE google_id = $1, fetch_optional
CallSelectGoogle(p) ==
    /\ calls[p].pc = "select_google"
    /\ \E found \in FetchOptional(SelectByGoogleId(users, Unwrap(calls[p].info).sub)) :
          calls' = [calls EXCEPT ![p] =
                       IF IsSome(found)
                       THEN [@ EXCEPT !.pc = "update_existing",
                                      !.existing_user =
                                          Some([id |-> Unwrap(found),
                                                full_name |-> users[Unwrap(found)].full_name])]
                       ELSE [@ EXCEPT !.pc = "select_email"]]
    /\ UNCHANGED <<users, stats, nextId, now, held, resp>>

\* UPDATE users SET email, full_name, image WHERE google_id = $4 RETURNING ...,
\* fetch_one
CallUpdateExisting(p) ==
    /\ calls[p].pc = "update_existing"
    /\ LET c == calls[p]
           info == Unwrap(c.info)
           targets == SelectByGoogleId(users, info.sub)
           updated == UpdateExisting(users, info, Unwrap(c.existing_user))
       IN  IF targets = {}
           THEN /\ calls' = [calls EXCEPT ![p] = CallFailed(c, "DatabaseError")]
                /\ users' = users
           ELSE IF ~EmailUnique(updated)
           THEN /\ calls' = [calls EXCEPT ![p] =
                                CallFailed(c, "DatabaseErrorUniqueEmail")]
                /\ users' = users
           ELSE /\ users' = updated
                /\ \E id \in targets :
                      calls' = [calls EXCEPT ![p] =
                                   [c EXCEPT !.pc = "select_flag",
                                             !.user = Some(id),
                                             !.wrote = Some(updated[id])]]
    /\ UNCHANGED <<stats, nextId, now, held, resp>>

\* SELECT ... FROM users WHERE email = $1, fetch_optional
CallSelectEmail(p) ==
    /\ calls[p].pc = "select_email"
    /\ \E found \in FetchOptional(SelectByEmail(users, Unwrap(calls[p].info).email)) :
          calls' = [calls EXCEPT ![p] =
                       IF IsSome(found)
                       THEN [@ EXCEPT !.pc = "update_link", !.email_user = found]
                       ELSE [@ EXCEPT !.pc = "insert_user"]]
    /\ UNCHANGED <<users, stats, nextId, now, held, resp>>

\* UPDATE users SET google_id, image = COALESCE($2, image) WHERE id = $3
\* RETURNING ..., fetch_one
CallUpdateLink(p) ==
    /\ calls[p].pc = "update_link"
    /\ LET c == calls[p]
           id == Unwrap(c.email_user)
           updated == UpdateLink(users, Unwrap(c.info), id)
       IN  IF id \notin DOMAIN users
           THEN /\ calls' = [calls EXCEPT ![p] = CallFailed(c, "DatabaseError")]
                /\ users' = users
           ELSE /\ users' = updated
                /\ calls' = [calls EXCEPT ![p] =
                                [c EXCEPT !.pc = "select_flag", !.user = Some(id),
                                          !.wrote = Some(updated[id])]]
    /\ UNCHANGED <<stats, nextId, now, held, resp>>

\* mutant: the INSERT is not refused for an email another row holds
CallInsertUserUnchecked(p) ==
    /\ calls[p].pc = "insert_user"
    /\ nextId <= MaxUsers
    /\ LET c == calls[p]
           inserted == users @@ (nextId :> GoogleRow(Unwrap(c.info)))
       IN  /\ users' = inserted
           /\ nextId' = nextId + 1
           /\ calls' = [calls EXCEPT ![p] =
                           [c EXCEPT !.pc = "insert_stats",
                                     !.user = Some(nextId),
                                     !.wrote = Some(inserted[nextId])]]
    /\ UNCHANGED <<stats, now, held, resp>>

\* Uuid::new_v4(), INSERT INTO users ... RETURNING ..., fetch_one
CallInsertUser(p) ==
    /\ calls[p].pc = "insert_user"
    /\ nextId <= MaxUsers
    /\ LET c == calls[p]
           inserted == users @@ (nextId :> GoogleRow(Unwrap(c.info)))
       IN  IF ~EmailUnique(inserted)
           THEN /\ calls' = [calls EXCEPT ![p] =
                                CallFailed(c, "DatabaseErrorUniqueEmail")]
                /\ UNCHANGED <<users, nextId>>
           ELSE /\ users' = inserted
                /\ nextId' = nextId + 1
                /\ calls' = [calls EXCEPT ![p] =
                                [c EXCEPT !.pc = "insert_stats",
                                          !.user = Some(nextId),
                                          !.wrote = Some(inserted[nextId])]]
    /\ UNCHANGED <<stats, now, held, resp>>

\* INSERT INTO user_stats (user_id, ...) VALUES ($1, ...)
CallInsertStats(p) ==
    /\ calls[p].pc = "insert_stats"
    /\ stats' = stats \cup {Unwrap(calls[p].user)}
    /\ calls' = [calls EXCEPT ![p].pc = "select_flag"]
    /\ UNCHANGED <<users, nextId, now, held, resp>>

\* SELECT university_major_set FROM users WHERE id = $1, then create_token
\* and the redirect
CallSelectFlag(p) ==
    /\ calls[p].pc = "select_flag"
    /\ LET id == Unwrap(calls[p].user)
       IN  calls' = [calls EXCEPT ![p] =
                        [@ EXCEPT !.pc = "done", !.status = 307,
                                  !.token = Some(CreateToken(id, now)),
                                  !.needs = NeedsCompletion(users, id)]]
    /\ UNCHANGED <<users, stats, nextId, now, held, resp>>

----------------------------------------------------------------------------
(* POST /auth/signup, statement by statement *)

SignupRequests == [email : Emails, password : Passwords, full_name : FullNames]

\* the request is deserialized
SignBegin(p) ==
    /\ calls[p].pc = "idle"
    /\ \E req \in SignupRequests :
          calls' = [calls EXCEPT ![p] =
                       [@ EXCEPT !.pc = "sign_select_email", !.info = Some(req),
                                 !.users0 = users, !.stats0 = stats]]
    /\ UNCHANGED <<users, stats, nextId, now, held, resp>>

\* SELECT id FROM users WHERE email = $1, fetch_optional; a row gives
\* Err(AppError::UserExists)
SignSelectEmail(p) ==
    /\ calls[p].pc = "sign_select_email"
    /\ calls' = [calls EXCEPT ![p] =
                    IF SelectByEmail(users, Unwrap(@.info).email) /= {}
                    THEN CallFailed(@, "UserExists")
                    ELSE [@ EXCEPT !.pc = "sign_insert_user"]]
    /\ UNCHANGED <<users, stats, nextId, now, held, resp>>

\* mutant: the INSERT is not refused for an email another row holds
SignInsertUserUnchecked(p) ==
    /\ calls[p].pc = "sign_insert_user"
    /\ nextId <= MaxUsers
    /\ LET c == calls[p]
           inserted == users @@ (nextId :> SignupRow(Unwrap(c.info)))
       IN  /\ users' = inserted
           /\ nextId' = nextId + 1
           /\ calls' = [calls EXCEPT ![p] =
                           [c EXCEPT !.pc = "sign_insert_stats",
                                     !.user = Some(nextId),
                                     !.wrote = Some(inserted[nextId])]]
    /\ UNCHANGED <<stats, now, held, resp>>

\* hash, Uuid::new_v4(), INSERT INTO users ... RETURNING ..., fetch_one
SignInsertUser(p) ==
    /\ calls[p].pc = "sign_insert_user"
    /\ nextId <= MaxUsers
    /\ LET c == calls[p]
           inserted == users @@ (nextId :> SignupRow(Unwrap(c.info)))
       IN  IF ~EmailUnique(inserted)
           THEN /\ calls' = [calls EXCEPT ![p] =
                                CallFailed(c, "DatabaseErrorUniqueEmail")]
                /\ UNCHANGED <<users, nextId>>
           ELSE /\ users' = inserted
                /\ nextId' = nextId + 1
                /\ calls' = [calls EXCEPT ![p] =
                                [c EXCEPT !.pc = "sign_insert_stats",
                                          !.user = Some(nextId),
                                          !.wrote = Some(inserted[nextId])]]
    /\ UNCHANGED <<stats, now, held, resp>>

\* INSERT INTO user_stats (user_id, ...) VALUES ($1, ...), then create_token
\* and the response
SignInsertStats(p) ==
    /\ calls[p].pc = "sign_insert_stats"
    /\ LET id == Unwrap(calls[p].user)
       IN  /\ stats' = stats \cup {id}
           /\ calls' = [calls EXCEPT ![p] =
                           [@ EXCEPT !.pc = "done", !.status = 200,
                                     !.token = Some(CreateToken(id, now))]]
    /\ UNCHANGED <<users, nextId, now, held, resp>>

\* tables the sequential API reaches, from which concurrent callbacks start:
\* nobody; one user created by a callback; that user and a password user;
\* one password user; one password user the callback has linked
RaceLinkedInfo ==
    [sub |-> "g1", email |-> "a@uj", name |-> Some("G-Ann"), picture |-> None]

RacePasswordUser(email) ==
    SignupRow([email |-> email, password |-> "pw1", full_name |-> "Ann"])

RaceTables ==
    {<< >>,
     <<GoogleRow(RaceLinkedInfo)>>,
     <<GoogleRow(RaceLinkedInfo), RacePasswordUser("b@uj")>>,
     <<RacePasswordUser("a@uj")>>,
     UpdateLink(<<RacePasswordUser("a@uj")>>, RaceLinkedInfo, 1)}

InitRace ==
    /\ users \in RaceTables
    /\ stats = DOMAIN users
    /\ nextId = Len(users) + 1
    /\ now = 0
    /\ held = None
    /\ resp = Idle
    /\ calls = [p \in Procs |-> IdleCall]

----------------------------------------------------------------------------
(* One request served from a session: the tables hold accounts the API and
   the operator have left there, and the client holds no token, the token
   of one of them, or the token of a user whose row is gone *)

\* the accounts that can hold `email`: a password user, a user a callback
\* created for subject `sub`, a password user a callback linked to `sub`;
\* each with the role the schema gives or the role the operator gave
SessionRows(email, sub) ==
    LET info == [sub |-> sub, email |-> email, name |-> Some("G-Ann"),
                 picture |-> None]
        rows == {RacePasswordUser(email), GoogleRow(info),
                 UpdateLink(<<RacePasswordUser(email)>>, info, 1)[1]}
    IN  {[row EXCEPT !.role = role] : row \in rows, role \in Roles}

SessionTables ==
    {<< >>}
        \cup {<<a>> : a \in SessionRows("a@uj", "g1") \cup SessionRows("b@uj", "g2")}
        \cup {<<a, b>> : a \in SessionRows("a@uj", "g1"),
                         b \in SessionRows("b@uj", "g2")}

\* what the client holds after a login or a callback as user id; the row
\* may have been deleted since
SessionOf(table, id) ==
    Some([token |-> CreateToken(id, 0), user_id |-> id,
          role |-> IF id \in DOMAIN table THEN table[id].role ELSE DefaultRole])

InitSession ==
    /\ users \in SessionTables
    /\ stats = DOMAIN users
    /\ held \in {None} \cup {SessionOf(users, id) : id \in UserIds}
    /\ nextId = IF IsSome(held) /\ Unwrap(held).user_id > Len(users)
                THEN Unwrap(held).user_id + 1
                ELSE Len(users) + 1
    /\ now = 0
    /\ resp = Idle
    /\ calls = [p \in Procs |-> IdleCall]

----------------------------------------------------------------------------
(* Specification *)

\* one statement of one of the concurrent callbacks
NextRace ==
    \E p \in Procs :
        \/ CallBegin(p)
        \/ CallSelectGoogle(p)
        \/ CallUpdateExisting(p)
        \/ CallSelectEmail(p)
        \/ CallUpdateLink(p)
        \/ CallInsertUser(p)
        \/ CallInsertStats(p)
        \/ CallSelectFlag(p)

NextSignupRace ==
    \E p \in Procs :
        \/ SignBegin(p)
        \/ SignSelectEmail(p)
        \/ SignInsertUser(p)
        \/ SignInsertStats(p)

\* the whole system
Next ==
    \/ Tick
    \/ ClientReceive
    \/ OperatorSetRole
    \/ OperatorDeleteUser
    \/ Signup
    \/ Login
    \/ RouteRequest
    \/ UpdateUserPassword
    \/ UpdateUserProfile
    \/ UploadUserAvatar
    \/ CompleteProfile
    \/ GoogleAuthInit
    \/ GoogleAuthCallback
    \/ NextRace
    \/ NextSignupRace

Spec == Init /\ [][Next]_vars

\* tokens and guards: accounts are created by signup, the clock runs, roles
\* and rows change under the guards
NextAuth ==
    \/ Tick
    \/ ClientReceive
    \/ OperatorSetRole
    \/ OperatorDeleteUser
    \/ Signup
    \/ Login
    \/ RouteRequest

SpecAuth == Init /\ [][NextAuth]_vars

\* account resolution: signups and OAuth callbacks in any order
NextOAuth ==
    \/ ClientReceive
    \/ Signup
    \/ GoogleAuthCallback

SpecOAuth == Init /\ [][NextOAuth]_vars

\* accounts: password accounts and Google accounts under signup, login,
\* password and profile updates and OAuth callbacks
NextAccount ==
    \/ ClientReceive
    \/ Signup
    \/ Login
    \/ UpdateUserPassword
    \/ UpdateUserProfile
    \/ GoogleAuthCallback

SpecAccount == Init /\ [][NextAccount]_vars

\* avatars: uploads between signups and OAuth callbacks
NextAvatar ==
    \/ ClientReceive
    \/ Signup
    \/ UploadUserAvatar
    \/ GoogleAuthCallback

SpecAvatar == Init /\ [][NextAvatar]_vars

\* the profile flag: profile completion between OAuth callbacks
NextFlag ==
    \/ ClientReceive
    \/ CompleteProfile
    \/ GoogleAuthCallback

SpecFlag == Init /\ [][NextFlag]_vars

\* two OAuth callbacks at the same time, each run once
SpecRace == InitRace /\ [][NextRace]_vars

\* the OAuth round trip: the redirect to the provider, then the callback
NextCsrf ==
    \/ ClientReceive
    \/ Signup
    \/ GoogleAuthInit
    \/ GoogleAuthCallback

SpecCsrf == Init /\ [][NextCsrf]_vars

\* two signups at the same time, each run once
SpecSignupRace == InitRace /\ [][NextSignupRace]_vars

\* every operation of the API, once, from every session
NextSession ==
    \/ Signup
    \/ Login
    \/ RouteRequest
    \/ UpdateUserPassword
    \/ UpdateUserProfile
    \/ UploadUserAvatar
    \/ CompleteProfile
    \/ GoogleAuthCallback

SpecSession == InitSession /\ [][NextSession]_vars

----------------------------------------------------------------------------
(* Properties of the guards and of the token codec (SpecAuth) *)

\* the response in flight answers a request to a routed handler
IsRoute == resp.op = "route"

\* the extractor of the handler the request in flight was routed to
RespGuard == HandlerGuard(RouteHandler(resp.req.route))

\* the request in flight presents "Bearer <the token the client holds>"
PresentsHeld ==
    /\ IsRoute
    /\ IsSome(held)
    /\ resp.req.header = TextHeader("Bearer ", Unwrap(held).token)

\* why a header cannot authenticate at time t, judged on the header alone
CredentialFault(h, t) ==
    IF ~h.present THEN "missing"
    ELSE IF ~h.ascii THEN "not_text"
    ELSE IF h.prefix /= "Bearer " THEN "no_bearer_prefix"
    ELSE IF ~h.rest.wf THEN "malformed"
    ELSE IF h.rest.key /= SecretKey THEN "bad_signature"
    ELSE IF h.rest.exp + 60 < t THEN "expired"
    ELSE "none"

\* C1: AdminUser extraction on a request whose identity check succeeded: a
\* failing role lookup gives InternalError; otherwise the request is elevated
\* exactly when the row exists with role "admin", and gets AuthError when the
\* row is missing or has any other role.
C1_RoleGuardDecision ==
    (IsRoute /\ RespGuard = "AdminUser") =>
        LET ident == AuthUserFromRequestParts(resp.req.header, resp.at)
        IN  ident.err = "none" =>
              LET u == Unwrap(ident.user_id)
                  isAdmin == u \in DOMAIN resp.users0
                                /\ resp.users0[u].role = "admin"
              IN  IF resp.req.lookupFails
                  THEN resp.err = "InternalError" /\ ~resp.ran
                          /\ resp.principal = None
                  ELSE IF isAdmin
                  THEN resp.err = "none" /\ resp.ran /\ resp.principal = Some(u)
                  ELSE resp.err = "AuthError" /\ ~resp.ran
                          /\ resp.principal = None

C1_Witness ==
    /\ IsRoute
    /\ RespGuard = "AdminUser"
    /\ PresentsHeld
    /\ ~resp.req.lookupFails
    /\ Unwrap(held).user_id \in DOMAIN resp.users0
    /\ resp.users0[Unwrap(held).user_id].role = "admin"
    /\ resp.principal = Some(Unwrap(held).user_id)

C5_ForeignSignatureRejected ==
    (IsRoute /\ RespGuard \in {"AuthUser", "AdminUser"}
        /\ StripBearer(resp.req.header) /= None
        /\ resp.req.header.present /\ resp.req.header.ascii
        /\ resp.req.header.rest.wf
        /\ resp.req.header.rest.key /= SecretKey) =>
        /\ resp.err = "AuthError"
        /\ resp.principal = None
        /\ ~resp.ran

C5_Witness ==
    /\ IsRoute
    /\ RespGuard = "AdminUser"
    /\ resp.req.header.rest.wf
    /\ resp.req.header.rest.key = OtherKey
    /\ resp.req.header.rest.exp > resp.at
    /\ \E u \in DOMAIN resp.users0 :
          /\ resp.users0[u].role = "admin"
          /\ resp.req.header.rest.sub = UuidToString(u)
    /\ resp.err = "AuthError"

\* C6: every route under /users and /challenges is bound to a handler that
\* takes AuthUser and every route under /admin to one that takes AdminUser,
\* and a handler routed there runs only after its guard succeeded: under
\* /users and /challenges the request carries a credential that
\* authenticates, under /admin the authenticated user's row had role "admin"
\* when the request was handled.
C6_GuardBeforeHandler ==
    /\ \A route \in UsersRoutes \cup ChallengesRoutes :
          HandlerGuard(RouteHandler(route)) = "AuthUser"
    /\ \A route \in AdminRoutes :
          HandlerGuard(RouteHandler(route)) = "AdminUser"
    /\ (IsRoute /\ resp.ran) =>
           LET ident == AuthUserFromRequestParts(resp.req.header, resp.at)
           IN  /\ resp.req.route \in UsersRoutes \cup ChallengesRoutes \cup AdminRoutes
                   => /\ ident.err = "none"
                      /\ resp.principal = ident.user_id
               /\ resp.req.route \in AdminRoutes
                   => /\ ident.err = "none"
                      /\ ~resp.req.lookupFails
                      /\ Unwrap(ident.user_id) \in DOMAIN resp.users0
                      /\ resp.users0[Unwrap(ident.user_id)].role = "admin"

C6_Witness ==
    /\ IsRoute
    /\ resp.ran
    /\ resp.req.route = "DELETE /admin/resources/:id"
    /\ IsSome(resp.principal)

----------------------------------------------------------------------------
(* Properties of the OAuth callback (SpecOAuth) *)

\* the response in flight answers a callback that got the provider's userinfo
IsCallback == resp.op = "google_auth_callback" /\ IsSome(resp.req.info)

CbInfo == Unwrap(resp.req.info)

\* the rows that carried the callback's subject id, and the rows that held its
\* email, when the callback started
LinkedBefore == SelectByGoogleId(resp.users0, CbInfo.sub)

EmailBefore == SelectByEmail(resp.users0, CbInfo.email)

\* neither the provider nor the database connection failed under the callback
NoInfraFailure == resp.err \notin {"DatabaseError", "InternalError"}

\* the callback answered with the redirect
Redirected == resp.status = 307

\* the user the minted token and the redirect's user object are for
MintedFor(id) ==
    /\ IsSome(resp.token)
    /\ UuidParseStr(Unwrap(resp.token).sub) = Some(id)
    /\ Unwrap(resp.user).id = id

\* the callback added no row to either table
NoRowCreated == DOMAIN users = DOMAIN resp.users0 /\ stats = resp.stats0

\* C7: the record carrying the subject id is resolved, with a token
\* minted for it, whatever record holds the email; the email match is used
\* only when no record carries the subject id; a record is created only when
\* neither matches.
C7_FirstMatchResolves ==
    (IsCallback /\ NoInfraFailure) =>
        /\ LinkedBefore /= {} =>
              /\ Redirected
              /\ \E id \in LinkedBefore : MintedFor(id)
        /\ (LinkedBefore = {} /\ EmailBefore /= {}) =>
              /\ Redirected
              /\ \E id \in EmailBefore : MintedFor(id)
        /\ (LinkedBefore = {} /\ EmailBefore = {}) =>
              /\ Redirected
              /\ \E id \in DOMAIN users \ DOMAIN resp.users0 : MintedFor(id)

\* What the callback does guarantee about C7's order: a record carrying the
\* subject id always selects the existing-link branch, and the email lookup is then never issued; that
\* branch mints the token for that record unless a different record holds the
\* callback's email, in which case the email refresh violates users_email_key
\* and the callback answers 409, changes nothing and mints no token. The
\* email match is used only when no record carries the subject id, and a
\* record is created only when neither matches; a minted token is for the
\* record chosen in this order.
C7_FirstMatchWins ==
    /\ IsCallback =>
          /\ resp.emailLookup => LinkedBefore = {}
          /\ DOMAIN users /= DOMAIN resp.users0
                => (LinkedBefore = {} /\ EmailBefore = {})
          /\ LinkedBefore /= {}
                => \A id \in DOMAIN resp.users0 \ LinkedBefore :
                      users[id] = resp.users0[id]
    /\ (IsCallback /\ NoInfraFailure) =>
          /\ LinkedBefore /= {} =>
                /\ resp.branch = "existing"
                /\ ~resp.emailLookup
                /\ IF EmailBefore \ LinkedBefore = {}
                   THEN Redirected /\ \E id \in LinkedBefore : MintedFor(id)
                   ELSE /\ resp.err = "DatabaseErrorUniqueEmail"
                        /\ resp.status = 409
                        /\ resp.token = None
                        /\ users = resp.users0
                        /\ stats = resp.stats0
          /\ (LinkedBefore = {} /\ EmailBefore /= {}) =>
                /\ resp.branch = "email"
                /\ Redirected
                /\ \E id \in EmailBefore : MintedFor(id)
          /\ (LinkedBefore = {} /\ EmailBefore = {}) =>
                /\ resp.branch = "create"
                /\ Redirected
                /\ \E id \in DOMAIN users \ DOMAIN resp.users0 : MintedFor(id)

C7_Witness ==
    /\ IsCallback
    /\ LinkedBefore /= {}
    /\ EmailBefore \ LinkedBefore /= {}
    /\ resp.branch = "existing"
    /\ resp.status = 409

\* C8: when no record carries the subject id and a password-based record with
\* no external id holds the callback's email, the callback creates no user or
\* stats row and leaves that record's password hash untouched; unless the
\* database connection fails it attaches the subject id to that record and
\* mints the token for that record's id.
C8_LinkByEmail ==
    IsCallback =>
        \A e \in EmailBefore :
            (/\ LinkedBefore = {}
             /\ IsSome(resp.users0[e].password_hash)
             /\ resp.users0[e].google_id = None) =>
                /\ NoRowCreated
                /\ users[e].password_hash = resp.users0[e].password_hash
                /\ NoInfraFailure =>
                      /\ users[e].google_id = Some(CbInfo.sub)
                      /\ Redirected
                      /\ MintedFor(e)

C8_Witness ==
    /\ IsCallback
    /\ LinkedBefore = {}
    /\ \E e \in EmailBefore :
          /\ IsSome(resp.users0[e].password_hash)
          /\ resp.users0[e].google_id = None
          /\ users[e].google_id = Some(CbInfo.sub)
          /\ MintedFor(e)
    /\ Redirected

\* C9: when neither the subject id nor the email matches a record, a callback
\* that ends in the redirect has created exactly one user row (a new id, the
\* provider's email, the provider's name or else the email as display name,
\* the provider's avatar, no password hash) and exactly one stats row for
\* it, minted the token for the new id and set needs_profile_completion.
C9_CreateNewUser ==
    (IsCallback /\ LinkedBefore = {} /\ EmailBefore = {} /\ Redirected) =>
        \E id \in DOMAIN users \ DOMAIN resp.users0 :
            /\ DOMAIN users = DOMAIN resp.users0 \cup {id}
            /\ \A o \in DOMAIN resp.users0 : users[o] = resp.users0[o]
            /\ users[id].email = CbInfo.email
            /\ users[id].full_name =
                  (IF CbInfo.name = None THEN CbInfo.email ELSE CbInfo.name[1])
            /\ users[id].image = CbInfo.picture
            /\ users[id].password_hash = None
            /\ users[id].google_id = Some(CbInfo.sub)
            /\ id \notin resp.stats0
            /\ stats = resp.stats0 \cup {id}
            /\ MintedFor(id)
            /\ resp.needs

C9_Witness ==
    /\ IsCallback
    /\ LinkedBefore = {}
    /\ EmailBefore = {}
    /\ Redirected
    /\ CbInfo.name = None
    /\ resp.needs
    /\ Cardinality(DOMAIN users) = Cardinality(DOMAIN resp.users0) + 1

\* the display names the fresh provider response can supply: its name, or
\* without one the text creation falls back to
ProviderDisplayNames ==
    IF IsSome(CbInfo.name) THEN {CbInfo.name[1]} ELSE {CbInfo.email}

\* C10 as stated: on an already linked record a callback that ends in the
\* redirect creates no row, leaves email, display name and avatar holding
\* values of the fresh provider response and returns the record's id.
C10_RefreshAll ==
    (IsCallback /\ LinkedBefore /= {} /\ Redirected) =>
        /\ NoRowCreated
        /\ \A id \in LinkedBefore :
              /\ users[id].email = CbInfo.email
              /\ users[id].full_name \in ProviderDisplayNames
              /\ users[id].image = CbInfo.picture
              /\ MintedFor(id)

\* C10 (amended): as stated, except that the display name is set to the
\* provider's name only when the response carries one; when it carries none
\* the record keeps the display name it had.
C10_RefreshFromProvider ==
    (IsCallback /\ LinkedBefore /= {} /\ Redirected) =>
        /\ NoRowCreated
        /\ \A id \in LinkedBefore :
              /\ users[id].email = CbInfo.email
              /\ users[id].full_name =
                    (IF CbInfo.name = None THEN resp.users0[id].full_name
                     ELSE CbInfo.name[1])
              /\ users[id].image = CbInfo.picture
              /\ users[id].google_id = resp.users0[id].google_id
              /\ MintedFor(id)
        /\ \A o \in DOMAIN users \ LinkedBefore : users[o] = resp.users0[o]

C10_Witness ==
    /\ IsCallback
    /\ Redirected
    /\ CbInfo.name = None
    /\ \E id \in LinkedBefore :
          /\ resp.users0[id].email /= CbInfo.email
          /\ resp.users0[id].image /= CbInfo.picture
          /\ users[id].email = CbInfo.email
          /\ users[id].image = CbInfo.picture
          /\ users[id].full_name = resp.users0[id].full_name
          /\ MintedFor(id)

----------------------------------------------------------------------------
(* Properties of the OAuth callback: avatar, atomicity, errors *)

\* C11: a callback that links by email and ends in the redirect leaves an
\* avatar the record already had unchanged, and sets the provider's avatar
\* only on a record that had none.
C11_LinkKeepsAvatar ==
    (IsCallback /\ resp.branch = "email" /\ Redirected) =>
        \A e \in EmailBefore :
            users[e].image =
                (IF IsSome(resp.users0[e].image) THEN resp.users0[e].image
                 ELSE CbInfo.picture)

\* a linking callback replaced an uploaded avatar by the provider's
C11_Witness ==
    /\ IsCallback
    /\ resp.branch = "email"
    /\ Redirected
    /\ \E e \in EmailBefore :
          /\ resp.users0[e].image = Some(UploadedImage)
          /\ IsSome(CbInfo.picture)
          /\ users[e].image = CbInfo.picture

\* C12: no user row created by the callback exists without its statistics
\* row: not while the callback's response is in flight, and not later (the
\* rows without a password hash are the rows the callback created).
C12_CreateAtomic ==
    /\ IsCallback => \A id \in DOMAIN users \ DOMAIN resp.users0 : id \in stats
    /\ \A id \in DOMAIN users : users[id].password_hash = None => id \in stats

\* a callback whose statistics insert failed left the user row behind
C12_Witness ==
    /\ IsCallback
    /\ resp.failed = "insert_stats"
    /\ \E id \in DOMAIN users \ DOMAIN resp.users0 : id \notin stats

\* the statements of account resolution in the callback
ResolutionSteps ==
    {"select_google", "select_email", "update_existing", "update_link",
     "insert_user", "insert_stats"}

\* C13: a callback that failed in one of the statements of account
\* resolution answers as InternalError does: HTTP 500 with the internal
\* error message, and never as another error kind.
C13_ResolutionErrorsInternal ==
    (resp.op = "google_auth_callback" /\ resp.failed \in ResolutionSteps) =>
        /\ resp.status = StatusOf("InternalError")
        /\ resp.message = MessageOf("InternalError", "")
        /\ resp.err \in {"InternalError", "DatabaseError"}

\* a callback whose email refresh collided answered 409
C13_Witness ==
    /\ IsCallback
    /\ resp.failed = "update_existing"
    /\ resp.status = 409
    /\ resp.message = "User already exists"

----------------------------------------------------------------------------
(* Properties of accounts (SpecAccount) *)

\* the rows without a password hash: signup always stores a hash, so these
\* are the rows the new-user branch of the callback created
OAuthOnly(table) == {id \in DOMAIN table : table[id].password_hash = None}

\* C14: a user created by the new-user branch of the callback has no
\* password hash; no signup, login, password update, profile update or
\* callback gives a user without a password hash one; and a login for the
\* email of such a user returns no token.
C14_OAuthOnlyForever ==
    /\ (IsCallback /\ resp.branch = "create") =>
          \A id \in DOMAIN users \ DOMAIN resp.users0 :
              users[id].password_hash = None
    /\ resp.op /= "idle" =>
          \A id \in OAuthOnly(resp.users0) :
              id \in DOMAIN users /\ users[id].password_hash = None
    /\ resp.op = "login" =>
          \A id \in OAuthOnly(resp.users0) :
              resp.users0[id].email = resp.req.email =>
                  /\ resp.token = None
                  /\ resp.err \in {"BadRequest", "DatabaseError"}

\* a password login for the email of a user the callback created, made by
\* the client that holds that user's token, was refused
C14_Witness ==
    /\ resp.op = "login"
    /\ resp.err = "BadRequest"
    /\ resp.message = GoogleOnlyMessage
    /\ \E id \in OAuthOnly(users) :
          /\ users[id].email = resp.req.email
          /\ IsSome(users[id].google_id)
          /\ IsSome(held)
          /\ Unwrap(held).user_id = id

----------------------------------------------------------------------------
(* Properties of the profile flag (SpecFlag) *)

\* the response in flight answers POST /auth/complete-profile with success
CompletedProfile ==
    /\ IsRoute
    /\ resp.req.route = "POST /auth/complete-profile"
    /\ resp.ran
    /\ resp.err = "none"

\* C15: the redirect carries needs_profile_completion exactly when the
\* resolved user's university_major_set is false, whatever the university
\* and major fields hold; a successful complete_profile sets the flag of the
\* authenticated user, and no operation clears a flag that is set, so every
\* later callback that resolves to that user omits the parameter.
C15_FlagDecidesCompletion ==
    /\ (IsCallback /\ Redirected) =>
          resp.needs = ~users[Unwrap(resp.user).id].university_major_set
    /\ CompletedProfile =>
          \A id \in DOMAIN users :
              resp.principal = Some(id) => users[id].university_major_set
    /\ resp.op /= "idle" =>
          \A id \in DOMAIN resp.users0 :
              resp.users0[id].university_major_set =>
                  id \in DOMAIN users /\ users[id].university_major_set

\* a callback resolved to a user who completed the profile with empty
\* strings, and the redirect omits the parameter
C15_Witness ==
    /\ IsCallback
    /\ Redirected
    /\ ~resp.needs
    /\ resp.users0[Unwrap(resp.user).id].university = Some("")
    /\ resp.users0[Unwrap(resp.user).id].university_major_set

----------------------------------------------------------------------------
(* Properties of the guards under change of the tables (SpecAuth) *)

\* the request in flight presents a credential that authenticates
Authenticates == CredentialFault(resp.req.header, resp.at) = "none"

\* the user id the presented token names
Subject == resp.req.header.rest.sub.val

\* what SELECT role FROM users WHERE id = the subject returned
SubjectRole ==
    IF Subject \in DOMAIN resp.users0 THEN Some(resp.users0[Subject].role)
    ELSE None

\* C16: AdminUser decides on the role stored when the request is handled:
\* a request with the token the client holds, whose role lookup succeeds, is
\* elevated exactly when the stored role is "admin" and gets AuthError
\* otherwise, whatever role the user had when the token was issued.
C16_RoleChangeImmediate ==
    (/\ IsRoute
     /\ RespGuard = "AdminUser"
     /\ PresentsHeld
     /\ Authenticates
     /\ ~resp.req.lookupFails) =>
        IF SubjectRole = Some("admin")
        THEN resp.err = "none" /\ resp.ran
        ELSE resp.err = "AuthError" /\ ~resp.ran

\* a token issued while the user was admin is rejected after the demotion
C16_Witness ==
    /\ IsRoute
    /\ RespGuard = "AdminUser"
    /\ PresentsHeld
    /\ Authenticates
    /\ Unwrap(held).role = "admin"
    /\ SubjectRole = Some("user")
    /\ resp.err = "AuthError"

\* C17: AdminUser issues no role lookup when the header is absent, not
\* text, without the prefix, or its token fails verification; otherwise it
\* issues exactly one, and what that lookup returns is the role of the row
\* of the token's subject.
C17_IdentityBeforeLookup ==
    (IsRoute /\ RespGuard = "AdminUser") =>
        IF ~Authenticates
        THEN resp.lookups = 0 /\ resp.role = None /\ resp.err = "AuthError"
        ELSE /\ resp.lookups = 1
             /\ ~resp.req.lookupFails => resp.role = SubjectRole

\* the one lookup returned the role of the token's subject while another
\* user was admin
C17_Witness ==
    /\ IsRoute
    /\ RespGuard = "AdminUser"
    /\ Authenticates
    /\ resp.lookups = 1
    /\ resp.role = Some("user")
    /\ \E other \in DOMAIN resp.users0 :
          other /= Subject /\ resp.users0[other].role = "admin"

C19_IdentityIgnoresTables ==
    (IsRoute /\ RespGuard = "AuthUser") =>
        /\ resp.lookups = 0
        /\ resp.err /= "InternalError"
        /\ IF Authenticates
           THEN /\ resp.ran
                /\ resp.principal = Some(Subject)
           ELSE /\ ~resp.ran
                /\ resp.err = "AuthError"
                /\ resp.principal = None

\* AuthUser accepted the token of a user whose row is gone
C19_Witness ==
    /\ IsRoute
    /\ RespGuard = "AuthUser"
    /\ resp.ran
    /\ resp.principal = Some(Subject)
    /\ Subject \notin DOMAIN resp.users0

----------------------------------------------------------------------------
(* Properties of concurrent callbacks (SpecRace) *)

\* both callbacks have answered
BothDone == \A p \in Procs : calls[p].pc = "done"

\* the rows that carried the subject id of p's callback when it started
LinkedAtStart(p) ==
    SelectByGoogleId(calls[p].users0, Unwrap(calls[p].info).sub)

\* both callbacks carry the same subject id, and a record carried it before
\* either started
SameLinkedIdentity ==
    /\ \A p, q \in Procs : Unwrap(calls[p].info).sub = Unwrap(calls[q].info).sub
    /\ \A p \in Procs : LinkedAtStart(p) /= {}

\* what C20 promises of the two callbacks once both have answered
RaceLastWriteWins ==
    /\ \A p \in Procs : calls[p].status = 307 /\ IsSome(calls[p].token)
    /\ \A p, q \in Procs : calls[p].user = calls[q].user
    /\ \A p \in Procs :
          /\ DOMAIN users = DOMAIN calls[p].users0
          /\ stats = calls[p].stats0
    /\ \E p \in Procs :
          LET row == users[Unwrap(calls[p].user)]
              w == Unwrap(calls[p].wrote)
          IN  /\ row.email = w.email
              /\ row.full_name = w.full_name
              /\ row.image = w.image

\* C20: two callbacks for the same already-linked identity, interleaved in
\* any way, both succeed, resolve to the same id, create no row, and leave
\* the record with the email, display name and avatar one of them wrote.
C20_LinkedRaceLastWriteWins ==
    (BothDone /\ SameLinkedIdentity) => RaceLastWriteWins

\* the same, for callbacks whose email no other record holds: this part of
\* C20 the code does guarantee
C20_LinkedRaceWithoutCollision ==
    (/\ BothDone
     /\ SameLinkedIdentity
     /\ \A p \in Procs :
           SelectByEmail(calls[p].users0, Unwrap(calls[p].info).email)
               \subseteq LinkedAtStart(p)) => RaceLastWriteWins

\* one of two callbacks for the same linked identity was refused with 409
C20_Witness ==
    /\ BothDone
    /\ SameLinkedIdentity
    /\ \E p, q \in Procs :
          /\ calls[p].status = 409
          /\ calls[q].status = 307

----------------------------------------------------------------------------
(* Properties of the callback's steps *)

\* the calls and statements of google_auth_callback, in program order
CallbackSteps ==
    <<"exchange_code", "userinfo", "select_google", "update_existing",
      "select_email", "update_link", "insert_user", "insert_stats",
      "select_flag", "create_token">>

ProviderSteps == {"exchange_code", "userinfo"}

\* the statements that resolve the user
WritingSteps == {"update_existing", "update_link", "insert_user", "insert_stats"}

StepIndex(step) ==
    CHOOSE i \in DOMAIN CallbackSteps : CallbackSteps[i] = step

StepsIssued == {resp.steps[i] : i \in DOMAIN resp.steps}

\* the steps were issued in program order, each at most once
InProgramOrder ==
    /\ StepsIssued \subseteq {CallbackSteps[i] : i \in DOMAIN CallbackSteps}
    /\ \A i, j \in DOMAIN resp.steps :
          i < j => StepIndex(resp.steps[i]) < StepIndex(resp.steps[j])

\* C21: a failed code exchange or userinfo fetch answers InternalError with
\* no statement issued, no row changed, no token and no redirect; a token is
\* minted only after a resolving write and the flag read both succeeded; the
\* steps run in program order and none is issued twice.
C21_OneShotSteps ==
    resp.op = "google_auth_callback" =>
        /\ InProgramOrder
        /\ resp.failed \in ProviderSteps =>
              /\ resp.err = "InternalError"
              /\ resp.status = 500
              /\ StepsIssued \subseteq ProviderSteps
              /\ users = resp.users0
              /\ stats = resp.stats0
              /\ resp.token = None
              /\ ~Redirected
        /\ (IsSome(resp.token) \/ Redirected) =>
              /\ resp.failed = "none"
              /\ StepsIssued \cap WritingSteps /= {}
              /\ "insert_user" \in StepsIssued => "insert_stats" \in StepsIssued
              /\ Len(resp.steps) >= 2
              /\ resp.steps[Len(resp.steps) - 1] = "select_flag"
              /\ resp.steps[Len(resp.steps)] = "create_token"
        /\ resp.failed /= "none" =>
              /\ resp.steps[Len(resp.steps)] = resp.failed
              /\ resp.token = None
              /\ ~Redirected

\* the userinfo fetch failed after a successful code exchange
C21_Witness ==
    /\ resp.op = "google_auth_callback"
    /\ resp.failed = "userinfo"
    /\ resp.steps = <<"exchange_code", "userinfo">>
    /\ resp.users0 /= << >>

----------------------------------------------------------------------------
(* Properties of the external id *)

\* the rows of the table the callback found that carried an external id
LinkedRowsBefore ==
    {id \in DOMAIN resp.users0 : IsSome(resp.users0[id].google_id)}

\* C22: a record that carries an external id keeps that id through every
\* callback; the email-match branch does not overwrite the id of a record
\* linked to another subject.
C22_ExternalIdNeverReplaced ==
    IsCallback =>
        \A id \in LinkedRowsBefore :
            /\ id \in DOMAIN users
            /\ users[id].google_id = resp.users0[id].google_id

\* a callback whose subject no record carries, whose email belongs to a
\* record linked to another subject, ran the linking UPDATE on that record
C22_Witness ==
    /\ IsCallback
    /\ resp.branch = "email"
    /\ Redirected
    /\ \E id \in LinkedRowsBefore :
          /\ id \in EmailBefore
          /\ resp.users0[id].google_id /= Some(CbInfo.sub)
          /\ users[id].google_id = Some(CbInfo.sub)

----------------------------------------------------------------------------
(* Properties of concurrent callbacks for a new identity *)

CallInfo(p) == Unwrap(calls[p].info)

\* no row of p's starting table carries the subject id or holds the email
NewAtStart(p) ==
    /\ SelectByGoogleId(calls[p].users0, CallInfo(p).sub) = {}
    /\ SelectByEmail(calls[p].users0, CallInfo(p).email) = {}

\* both callbacks have started, with the same subject id and email, and the
\* identity was new to the table the first of them found
SameNewIdentity ==
    /\ \A p \in Procs : calls[p].pc /= "idle"
    /\ \A p, q \in Procs : /\ CallInfo(p).sub = CallInfo(q).sub
                           /\ CallInfo(p).email = CallInfo(q).email
    /\ \E p \in Procs : NewAtStart(p)

\* the rows of the identity the two callbacks carry
RowsOfIdentity ==
    LET info == CallInfo(CHOOSE p \in Procs : TRUE)
    IN  SelectByGoogleId(users, info.sub) \cup SelectByEmail(users, info.email)

\* the rows the race has added, counted from the table the first callback
\* found
RaceCreatedUsers ==
    LET first == CHOOSE p \in Procs : NewAtStart(p)
    IN  DOMAIN users \ DOMAIN calls[first].users0

RaceCreatedStats ==
    LET first == CHOOSE p \in Procs : NewAtStart(p)
    IN  stats \ calls[first].stats0

\* C23: two callbacks for the same new identity, interleaved in any way,
\* leave at most one user row and one stats row for it; each of them ends
\* with an error or resolves to the one row of the identity.
C23_NewIdentityRace ==
    SameNewIdentity =>
        /\ Cardinality(RowsOfIdentity) <= 1
        /\ Cardinality(RaceCreatedUsers) <= 1
        /\ RaceCreatedUsers \subseteq RowsOfIdentity
        /\ RaceCreatedStats \subseteq RaceCreatedUsers
        /\ \A p \in Procs :
              calls[p].pc = "done" =>
                  \/ calls[p].err /= "none" /\ calls[p].token = None
                  \/ /\ calls[p].status = 307
                     /\ RowsOfIdentity = {Unwrap(calls[p].user)}

\* both callbacks found no row and issued the INSERT; the second one was
\* refused by the unique email
C23_Witness ==
    /\ SameNewIdentity
    /\ BothDone
    /\ \A p \in Procs : calls[p].existing_user = None /\ calls[p].email_user = None
    /\ \E p, q \in Procs :
          /\ calls[p].status = 307
          /\ calls[q].status = 409
    /\ Cardinality(RaceCreatedUsers) = 1
    /\ Cardinality(RaceCreatedStats) = 1

----------------------------------------------------------------------------
(* Frame properties of the API (SpecSession) *)

\* an operation of the API has been served and its response is in flight
InFlight == resp.op /= "idle"

\* the users RoleGuard elevates
Admins(table) == {id \in DOMAIN table : table[id].role = AdminRole}

\* the rows the operation created
CreatedRows == DOMAIN users \ DOMAIN resp.users0

\* C24: whatever operation of the API was served, every user that existed
\* has the role it had, and the elevated users are those elevated before
\* plus, at most, rows the operation created.
C24_RolesUnchanged ==
    InFlight =>
        /\ \A id \in DOMAIN resp.users0 :
              /\ id \in DOMAIN users
              /\ users[id].role = resp.users0[id].role
        /\ Admins(users) \ Admins(resp.users0) \subseteq CreatedRows
        /\ Admins(resp.users0) \subseteq Admins(users)

\* a callback refreshed the row of an elevated user
C24_Witness ==
    /\ IsCallback
    /\ resp.branch = "existing"
    /\ Redirected
    /\ \E id \in Admins(resp.users0) :
          /\ MintedFor(id)
          /\ users[id] /= resp.users0[id]
          /\ id \in Admins(users)


\* the response in flight answers one of the four self-service operations
IsSelfService == IsRoute /\ RouteHandler(resp.req.route) \in WritingHandlers

\* C25: update_user_profile, upload_user_avatar, update_user_password and
\* complete_profile add and remove no row, and change no row but the one
\* whose id is the subject of the presented token, whatever the body.
C25_SelfServiceFrame ==
    IsSelfService =>
        /\ DOMAIN users = DOMAIN resp.users0
        /\ stats = resp.stats0
        /\ IF Authenticates
           THEN \A id \in DOMAIN users :
                   id /= Subject => users[id] = resp.users0[id]
           ELSE users = resp.users0

\* a self-service operation changed the subject's row while another user's
\* row was in the table
C25_Witness ==
    /\ IsSelfService
    /\ Authenticates
    /\ resp.ran
    /\ Subject \in DOMAIN users
    /\ users[Subject] /= resp.users0[Subject]
    /\ DOMAIN users \ {Subject} /= {}

----------------------------------------------------------------------------
(* Properties of login *)

IsLogin == resp.op = "login"

\* the rows holding the email of the login request when it was served
LoginRows == SelectByEmail(resp.users0, resp.req.email)

\* the row has a password hash and the request's password verifies against it
PasswordVerifies(id) ==
    /\ IsSome(resp.users0[id].password_hash)
    /\ Verify(resp.req.password, Unwrap(resp.users0[id].password_hash))

\* C26: login answers with a token only for a row that holds the email, has
\* a password hash the password verifies against, and is the token's
\* subject; an unknown email and a wrong password give AuthError; no table
\* is changed.
C26_LoginDecision ==
    IsLogin =>
        /\ users = resp.users0
        /\ stats = resp.stats0
        /\ IsSome(resp.token) =>
              /\ resp.err = "none"
              /\ \E id \in LoginRows :
                    /\ PasswordVerifies(id)
                    /\ VerifyBearer(Unwrap(resp.token), resp.at) = Some(id)
                    /\ Unwrap(resp.user).id = id
        /\ (resp.failed = "none" /\ LoginRows = {}) =>
              /\ resp.err = "AuthError"
              /\ resp.status = 401
              /\ resp.token = None
        /\ (/\ resp.failed = "none"
            /\ \E id \in LoginRows : IsSome(resp.users0[id].password_hash)
            /\ \A id \in LoginRows : ~PasswordVerifies(id)) =>
              /\ resp.err = "AuthError"
              /\ resp.status = 401
              /\ resp.token = None

\* a login with a wrong password for an existing password account
C26_Witness ==
    /\ IsLogin
    /\ resp.failed = "none"
    /\ \E id \in LoginRows :
          /\ IsSome(resp.users0[id].password_hash)
          /\ ~PasswordVerifies(id)
    /\ resp.err = "AuthError"

----------------------------------------------------------------------------
(* Properties of concurrent signups (SpecSignupRace) *)

\* the response of p is the conflict outcome
ConflictOutcome(p) ==
    /\ calls[p].err /= "none"
    /\ calls[p].status = 409
    /\ MessageOf(calls[p].err, "") = "User already exists"
    /\ calls[p].token = None

\* p has answered a signup whose email a row held when the request started
SignupForTakenEmail(p) ==
    /\ calls[p].pc = "done"
    /\ SelectByEmail(calls[p].users0, CallInfo(p).email) /= {}

\* both signups have answered and carried the same email
SameEmailSignups ==
    /\ BothDone
    /\ \A p, q \in Procs : CallInfo(p).email = CallInfo(q).email

\* C27: a signup for an email a user holds answers 409 "User already
\* exists" and adds no row; of two signups with the same email, interleaved
\* in any way, at most one row with the email remains, at most one gets a
\* token and the other gets the same 409 outcome.
C27_SignupConflict ==
    /\ EmailUnique(users)
    /\ stats \subseteq DOMAIN users
    /\ \A p \in Procs :
          SignupForTakenEmail(p) =>
              /\ ConflictOutcome(p)
              /\ calls[p].user = None
              /\ calls[p].wrote = None
    /\ SameEmailSignups =>
          /\ Cardinality(SelectByEmail(users, CallInfo("p1").email)) <= 1
          /\ Cardinality({p \in Procs : IsSome(calls[p].token)}) <= 1
          /\ \A p \in Procs : IsSome(calls[p].token) \/ ConflictOutcome(p)
          /\ \A p \in Procs :
                ConflictOutcome(p) => calls[p].user = None

\* both signups found the email free and issued the INSERT; the second was
\* refused by the unique email
C27_Witness ==
    /\ SameEmailSignups
    /\ \E p, q \in Procs :
          /\ IsSome(calls[p].token)
          /\ calls[q].err = "DatabaseErrorUniqueEmail"
          /\ ConflictOutcome(q)

----------------------------------------------------------------------------
(* Properties of the password update *)

\* the response in flight answers PUT /users/password, the extractor passed
IsPasswordUpdate ==
    /\ IsRoute
    /\ resp.req.route = "PUT /users/password"
    /\ resp.ran

\* the stored hash of the subject before the request, if it has a row and a
\* hash
StoredHash ==
    IF Subject \in DOMAIN resp.users0
    THEN resp.users0[Subject].password_hash
    ELSE None

\* the supplied current password verifies against the stored hash
CurrentVerifies ==
    /\ IsSome(StoredHash)
    /\ Verify(resp.req.body.current_password, Unwrap(StoredHash))

\* every password hash of the table is the one it was before the request
HashesUnchanged ==
    /\ DOMAIN users = DOMAIN resp.users0
    /\ \A id \in DOMAIN users :
          users[id].password_hash = resp.users0[id].password_hash

\* what login answers, in this state, to the subject's email and `password`
LoginNow(password) ==
    LoginResult([email |-> users[Subject].email, password |-> password],
                "none", Some(Subject))

\* C28: the stored hash is replaced only when the current password
\* verifies; a missing row answers NotFound, an account without a hash
\* BadRequest, a wrong current password AuthError, each with the hash
\* unchanged; after a successful update login answers a token to the new
\* password and AuthError to the old one.
C28_PasswordUpdate ==
    IsPasswordUpdate =>
        /\ ~HashesUnchanged => CurrentVerifies /\ resp.err = "none"
        /\ resp.failed = "none" =>
              /\ Subject \notin DOMAIN resp.users0 =>
                    resp.err = "NotFound" /\ HashesUnchanged
              /\ (Subject \in DOMAIN resp.users0 /\ StoredHash = None) =>
                    resp.err = "BadRequest" /\ HashesUnchanged
              /\ (IsSome(StoredHash) /\ ~CurrentVerifies) =>
                    resp.err = "AuthError" /\ HashesUnchanged
              /\ CurrentVerifies => resp.err = "none"
        /\ resp.err = "none" =>
              /\ users[Subject].password_hash =
                     Some(Hash(resp.req.body.new_password))
              /\ IsSome(LoginNow(resp.req.body.new_password).token)
              /\ resp.req.body.current_password /= resp.req.body.new_password =>
                    /\ LoginNow(resp.req.body.current_password).err = "AuthError"
                    /\ LoginNow(resp.req.body.current_password).token = None

\* a password was replaced while another account was in the table
C28_Witness ==
    /\ IsPasswordUpdate
    /\ resp.err = "none"
    /\ CurrentVerifies
    /\ users[Subject].password_hash /= resp.users0[Subject].password_hash
    /\ DOMAIN users \ {Subject} /= {}

----------------------------------------------------------------------------
(* Properties of repeated callbacks *)

\* a callback for the identity of the callback in flight, served by a
\* healthy provider and database
RepeatRequest ==
    [exchangeOk |-> TRUE, userinfoOk |-> TRUE, info |-> CbInfo,
     failAt |-> "none", state |-> Some("s1")]

\* what that callback would leave if it were the next request served: the
\* tables are those the callback in flight left
RepeatOutcomes ==
    {GoogleCallbackResult(RepeatRequest, existing_user, email_user, nextId) :
        existing_user \in FetchOptional(SelectByGoogleId(users, CbInfo.sub)),
        email_user \in FetchOptional(SelectByEmail(users, CbInfo.email))}

\* the user the callback in flight resolved to
ResolvedUser == Unwrap(resp.user).id

\* the repeat resolves to the same user through the existing-link branch and
\* creates nothing
RepeatResolvesSame(out) ==
    /\ out.resp.status = 307
    /\ out.resp.branch = "existing"
    /\ Unwrap(out.resp.user).id = ResolvedUser
    /\ VerifyBearer(Unwrap(out.resp.token), now) = Some(ResolvedUser)
    /\ DOMAIN out.users = DOMAIN users
    /\ out.stats = stats
    /\ out.nextId = nextId
    /\ out.users[ResolvedUser].email = users[ResolvedUser].email
    /\ out.users[ResolvedUser].google_id = users[ResolvedUser].google_id

----------------------------------------------------------------------------
(* The state query parameter *)

\* the request that differs from req in the state parameter only
WithState(req, s) == [req EXCEPT !.state = Some(s)]

\* the redirect to the provider left every table as it was
InitWroteNothing ==
    resp.op = "google_auth_init" =>
        /\ resp.status = 307
        /\ users = resp.users0
        /\ stats = resp.stats0

\* C30: the outcome of a callback does not depend on the value of the state
\* query parameter: from the same tables, with the same provider responses
\* and the same lookups and failures, two callbacks that differ only in
\* that value leave the same tables and the same response, whatever value
\* the last redirect to the provider carried; the redirect to the provider
\* stores the value it generates nowhere
C30_StateIgnored ==
    /\ InitWroteNothing
    /\ resp.op \in {"idle", "google_auth_init"} =>
          \A req \in CallbackQueries :
              \A existing_user \in FetchOptional(SelectByGoogleId(users, req.info.sub)),
                 email_user \in FetchOptional(SelectByEmail(users, req.info.email)) :
                  \A s \in CsrfStates :
                      GoogleCallbackResult(WithState(req, s), existing_user,
                                           email_user, nextId)
                          = GoogleCallbackResult(req, existing_user,
                                                 email_user, nextId)

\* the redirect to the provider carried s1, an account is stored, and a
\* callback that carries s2 signs its user in and writes to the account
C30_Witness ==
    /\ resp.op = "google_auth_init"
    /\ resp.req.state = "s1"
    /\ users /= << >>
    /\ \E req \in CallbackQueries :
          /\ req.state = Some("s2")
          /\ \E existing_user \in FetchOptional(SelectByGoogleId(users, req.info.sub)),
                email_user \in FetchOptional(SelectByEmail(users, req.info.email)) :
                LET out == GoogleCallbackResult(req, existing_user,
                                                email_user, nextId)
                IN  /\ out.resp.status = 307
                    /\ IsSome(out.resp.token)
                    /\ out.users /= users

=============================================================================
